---- MODULE Spec2Model ----
(***************************************************************************)
(* Model of the AI Limits Monitor plugin server: the configuration         *)
(* snapshot, the shared TTL cache, the four provider resolvers, the        *)
(* aggregator (handleGetStatus), handleRefresh, handleClaudePush and       *)
(* OnConfigurationChange.                                                  *)
(*                                                                         *)
(* The sources hold three builds of the server, which differ in the        *)
(* rate-limit provider and in the aggregator:                              *)
(*   "pull"  : server/providers.go with the plugin of unnamed/part_002     *)
(*             (lines 1-217) and webapp/src/components/rhs_panel.tsx       *)
(*   "push"  : unnamed/part_004 with the plugin of unnamed/part_001        *)
(*   "admin" : unnamed/part_003 with the plugin of unnamed/part_002        *)
(*             (lines 219-423)                                             *)
(* The variable variant fixes the build for a whole behaviour.             *)
(*                                                                         *)
(* Time is in seconds.  A handler is cut into steps at the points where    *)
(* it takes a lock or waits for an upstream answer, so that handlers of    *)
(* concurrent requests interleave as goroutines do.                        *)
(***************************************************************************)
EXTENDS Integers, Sequences, FiniteSets, TLC

\* ------------------------------------------------------------------ bounds
MaxRequests == 2
MaxCfgChanges == 1
MaxPushes == 1
MaxTicks == 2
RecoveredAt == 150

\* ------------------------------------------------------- program constants
DefaultTTL == 300
PushHeadroom == 3300

\* the clock advances half a default TTL at a time
TickSeconds == DefaultTTL \div 2

Procs == {1, 2}
Variants == {"pull", "push", "admin"}
Providers == <<"augment", "zai", "openai", "claude">>
ProviderSet == {"augment", "zai", "openai", "claude"}

\* ------------------------------------------------------------ ServiceStatus
NoData == [level |-> "none", plan |-> FALSE]

ServiceStatus(id, enabled, status, data, error, cachedAt) ==
    [id |-> id, enabled |-> enabled, status |-> status, data |-> data,
     error |-> error, cachedAt |-> cachedAt]

ErrorStatus(id, error) == ServiceStatus(id, TRUE, "error", NoData, error, 0)

DisabledHint(id) ==
    ServiceStatus(id, FALSE, "disabled", NoData, "not_configured_hint", 0)

NonePlaceholder ==
    ServiceStatus("none", FALSE, "disabled", NoData, "enable_services_hint", 0)

\* ------------------------------------------------------------ Configuration
\* cred is the provider's credential string: AugmentAccessToken, ZaiApiKey,
\* OpenaiApiKey and, for claude, ClaudeAccessToken (pull) or
\* ClaudeAdminApiKey (admin); the push build has no claude credential.
\* users is the set of ids listed in AllowedUserIds, teams whether
\* AllowedTeamIds lists a team (pull build).
EmptyConfiguration ==
    [enabled |-> [p \in ProviderSet |-> FALSE],
     cred    |-> [p \in ProviderSet |-> ""],
     refresh |-> "",
     budget  |-> "",
     ttl     |-> <<>>,
     users   |-> {},
     teams   |-> FALSE]

Modes == {"off", "nocred", "on"}

ConfigOf(v, m, ttl) ==
    [enabled |-> [p \in ProviderSet |-> m[p] # "off"],
     cred    |-> [p \in ProviderSet |->
                    IF m[p] = "on" /\ ~(v = "push" /\ p = "claude")
                    THEN "k" ELSE ""],
     refresh |-> IF v = "pull" /\ m["claude"] = "on" THEN "r" ELSE "",
     budget  |-> IF v = "pull" /\ m["openai"] = "on" THEN "100" ELSE "",
     ttl     |-> IF v = "admin" THEN ttl ELSE <<>>,
     users   |-> {},
     teams   |-> FALSE]

ModeVector(a, z, o, c) ==
    [p \in ProviderSet |->
        CASE p = "augment" -> a [] p = "zai" -> z
          [] p = "openai" -> o [] p = "claude" -> c]

\* The settings the host delivers in the specifications that interleave
\* requests: one provider polls at a time, and every provider appears
\* disabled, enabled without credential, and enabled with credential.
LoadableModes ==
    {ModeVector("on", "off", "nocred", "off"),
     ModeVector("off", "on", "off", "nocred"),
     ModeVector("nocred", "off", "on", "off"),
     ModeVector("off", "nocred", "off", "on")}

TTLStrings == {<<>>, <<"1", "5", "0">>}

LoadableConfigs(v) ==
    {ConfigOf(v, m, <<>>) : m \in LoadableModes}
    \cup (IF v = "admin"
          THEN {ConfigOf(v, ModeVector("off", "on", "off", "nocred"), <<"1", "5", "0">>)}
          ELSE {})

AllConfigs(v) ==
    {ConfigOf(v, m, t) : m \in [ProviderSet -> Modes],
                         t \in (IF v = "admin" THEN TTLStrings ELSE {<<>>})}

\* --------------------------------------------------------- upstream answers
\* body: "low", "high", "over" are parsable payloads whose usage is low,
\* beyond the warning threshold, or beyond the limit; "errobj" is a parsable
\* payload holding only an error envelope; "garbage" does not parse.
Bodies == {"low", "high", "over", "errobj", "garbage"}
TransportFailure == [err |-> TRUE, code |-> 0, body |-> "none"]
HTTPResponses ==
    {TransportFailure}
    \cup [err : {FALSE}, code : {200}, body : {"low", "high", "over", "garbage"}]
    \cup [err : {FALSE}, code : {500}, body : {"low", "errobj", "garbage"}]
\* the answers given where requests interleave, and to the providers that
\* poll after the first one: a failure and a success
FewResponses ==
    {TransportFailure, [err |-> FALSE, code |-> 200, body |-> "low"]}
Unauthorized == [err |-> FALSE, code |-> 401, body |-> "errobj"]
Forbidden == [err |-> FALSE, code |-> 403, body |-> "errobj"]
\* resp.StatusCode == 401 || resp.StatusCode == 403
AuthError(resp) == ~resp.err /\ resp.code \in {401, 403}

Parses(body) == body \notin {"garbage", "none"}
HasErrorKey(body) == body = "errobj"
Level(body) == IF body \in {"low", "high", "over"} THEN body ELSE "zero"

VARIABLES
    variant,        \* which build runs
    cfgs,           \* the Configuration objects allocated so far
    configuration,  \* p.configuration: index into cfgs, 0 for nil
    cfgPc,          \* position of OnConfigurationChange
    cfgChanges,     \* OnConfigurationChange calls so far
    cache,          \* p.cache: key -> CacheEntry, or NoEntry
    now,            \* the clock
    proc,           \* per request goroutine: position and locals
    nreq,           \* status and refresh requests started so far
    npush,          \* pushes that stored a record so far
    last,           \* history: per provider, the upstream fetch that
                    \* completed most recently since the last refresh,
                    \* push or configuration change
    store,          \* the host's settings store: the last map given to
                    \* p.API.SavePluginConfig
    calc,           \* one evaluation of a status formula: its inputs and
                    \* its results
    pushed          \* history: the latest push that stored a record

vars == <<variant, cfgs, configuration, cfgPc, cfgChanges, cache, now, proc,
          nreq, npush, last, store, calc, pushed>>

NoEntry == [present |-> FALSE, data |-> DisabledHint("none"), fetchedAt |-> 0]
CacheEntry(data, fetchedAt) ==
    [present |-> TRUE, data |-> data, fetchedAt |-> fetchedAt]
EmptyCache == [k \in ProviderSet |-> NoEntry]

\* ---------------------------------------------------------------- the cache
getConfiguration ==
    IF configuration = 0 THEN EmptyConfiguration ELSE cfgs[configuration]

DigitValue(c) ==
    CASE c = "0" -> 0 [] c = "1" -> 1 [] c = "2" -> 2 [] c = "3" -> 3
      [] c = "4" -> 4 [] c = "5" -> 5 [] c = "6" -> 6 [] c = "7" -> 7
      [] c = "8" -> 8 [] c = "9" -> 9 [] OTHER -> -1

RECURSIVE ScanDigits(_, _)
ScanDigits(s, parsed) ==
    IF s = <<>> THEN parsed
    ELSE ScanDigits(Tail(s),
                    IF DigitValue(Head(s)) >= 0
                    THEN parsed * 10 + DigitValue(Head(s))
                    ELSE parsed)

\* Whole numbers too large for the checker's integers are kept as their
\* decimal digits, most significant first, without leading zeros.
RECURSIVE StripZeros(_)
StripZeros(d) ==
    IF d # <<>> /\ Head(d) = "0" THEN StripZeros(Tail(d)) ELSE d

\* a < b for two such numbers
RECURSIVE DecLess(_, _)
DecLess(a, b) ==
    IF Len(a) # Len(b) THEN Len(a) < Len(b)
    ELSE IF a = <<>> THEN FALSE
    ELSE IF Head(a) # Head(b) THEN DigitValue(Head(a)) < DigitValue(Head(b))
    ELSE DecLess(Tail(a), Tail(b))

\* parsed = parsed*10 + int(c-'0') over the digits of s, the other
\* characters skipped
RECURSIVE ParsedDigits(_, _)
ParsedDigits(s, parsed) ==
    IF s = <<>> THEN parsed
    ELSE ParsedDigits(Tail(s),
                      IF DigitValue(Head(s)) >= 0
                      THEN StripZeros(Append(parsed, Head(s)))
                      ELSE parsed)

\* the most whole seconds a time.Duration holds: math.MaxInt64 / 1e9
MaxDurationSeconds == <<"9", "2", "2", "3", "3", "7", "2", "0", "3", "6">>

\* the most whole seconds whose nanoseconds stay below 2^64: from
\* MaxDurationSeconds + 1 up to here the int64 product has wrapped round
\* once and is negative
MaxWrappedOnce == <<"1", "8", "4", "4", "6", "7", "4", "4", "0", "7", "3">>

\* getCacheTTL of the admin build on the override string: ttl is the int
\* before the conversion; wraps says that time.Duration(ttl) * time.Second
\* exceeds int64 and wraps round, so that the duration returned is not ttl
\* seconds.  (parsed itself, an int of 64 bits, wraps only from 19 digits
\* on, beyond the overrides drawn here.)
cacheTTLOf(override) ==
    LET parsed == ParsedDigits(override, <<>>)
        ttl == IF override # <<>> /\ parsed # <<>> THEN parsed
               ELSE <<"3", "0", "0">>
    IN  [ttl |-> ttl, wraps |-> DecLess(MaxDurationSeconds, ttl),
         negative |-> /\ DecLess(MaxDurationSeconds, ttl)
                      /\ ~DecLess(MaxWrappedOnce, ttl)]

\* the seconds that stand for a duration wrapped round to a negative one:
\* such a duration lies below -8 * 10^9 seconds, beyond the integers of the
\* checker, and is kept as a number below every age it is compared with
WrappedTTL == 0 - 2000000000

\* seconds; the push and pull builds return the constant 5 * time.Minute
getCacheTTL ==
    IF variant = "admin"
    THEN IF cacheTTLOf(getConfiguration.ttl).negative THEN WrappedTTL
         ELSE LET parsed == ScanDigits(getConfiguration.ttl, 0)
              IN  IF getConfiguration.ttl # <<>> /\ parsed > 0 THEN parsed
                  ELSE DefaultTTL
    ELSE DefaultTTL

\* the comparison turned round
ExpiredInverted(entry) == now - entry.fetchedAt < getCacheTTL

Expired(entry) == now - entry.fetchedAt > getCacheTTL

\* a lookup that returns every entry present, however old
getCachedAnyAge(key) ==
    LET entry == cache[key]
    IN  IF ~entry.present THEN [found |-> FALSE, value |-> NoEntry.data]
        ELSE [found |-> TRUE, value |-> entry.data]

\* getCached: a miss for an absent entry and for one older than the TTL
getCached(key) ==
    LET entry == cache[key]
    IN  IF ~entry.present THEN [found |-> FALSE, value |-> NoEntry.data]
        ELSE IF Expired(entry) THEN [found |-> FALSE, value |-> NoEntry.data]
        ELSE [found |-> TRUE, value |-> entry.data]

\* a store that replaces the map by one holding the new entry alone
setCacheAlone(key, data) ==
    [p \in ProviderSet |-> IF p = key THEN CacheEntry(data, now) ELSE NoEntry]

setCache(key, data) == [cache EXCEPT ![key] = CacheEntry(data, now)]

\* ------------------------------------------------------------ the resolvers
\* Every resolver is split where it waits for its upstream: the Entry
\* operator is the part before the HTTP call (credential check and cache
\* lookup), the Result operator the part after it.  Entry answers
\* [fetch, src, rec]: fetch says an upstream call is needed, src tells where
\* rec comes from.  Result answers [rec, store]: store says setCache runs.
Direct(src, rec) == [fetch |-> FALSE, src |-> src, rec |-> rec]
NeedsFetch == [fetch |-> TRUE, src |-> "fetch", rec |-> DisabledHint("none")]

\* a resolver that takes every entry present for a hit, however old
CacheOrFetchAnyAge(key) ==
    IF cache[key].present THEN Direct("cache", cache[key].data)
    ELSE NeedsFetch

\* the cache lookup of a resolver: the hit is returned, a miss goes upstream
CacheOrFetch(key) ==
    IF getCached(key).found THEN Direct("cache", getCached(key).value)
    ELSE NeedsFetch

\* a fetched record that carries the enabled flag of a disabled provider
FreshUnmarked(id, status, level, plan, t) ==
    [rec |-> ServiceStatus(id, FALSE, status, [level |-> level, plan |-> plan], "", t),
     store |-> TRUE]

\* the record built from a usable answer: stored by setCache and returned
Fresh(id, status, level, plan, t) ==
    [rec |-> ServiceStatus(id, TRUE, status, [level |-> level, plan |-> plan], "", t),
     store |-> TRUE]
\* an error record that the resolver would store like a fetched one
FailedStored(id, error) == [rec |-> ErrorStatus(id, error), store |-> TRUE]

\* an error record: returned, never stored
Failed(id, error) == [rec |-> ErrorStatus(id, error), store |-> FALSE]

getAugmentStatusEntry(config) ==
    IF config.cred["augment"] = ""
    THEN Direct("nocred", ErrorStatus("augment", "token_not_configured"))
    ELSE CacheOrFetch("augment")

getAugmentStatusResult(resp, t) ==
    IF resp.err THEN Failed("augment", "api_error")
    ELSE IF resp.code # 200 THEN Failed("augment", "http_error")
    ELSE IF ~Parses(resp.body) THEN Failed("augment", "parse_error")
    ELSE Fresh("augment",
               IF Level(resp.body) \in {"high", "over"} THEN "warning" ELSE "ok",
               Level(resp.body), Level(resp.body) # "zero", t)

getZaiStatusEntry(config) ==
    IF config.cred["zai"] = ""
    THEN Direct("nocred", ErrorStatus("zai", "key_not_configured"))
    ELSE CacheOrFetch("zai")

\* sub and quota are the answers of the two GETs; a failed or unparsable
\* answer leaves the fields of info at their zero values.
getZaiStatusResult(sub, quota, t) ==
    LET plan  == ~sub.err /\ Parses(sub.body) /\ Level(sub.body) # "zero"
        level == IF ~quota.err /\ Parses(quota.body)
                 THEN Level(quota.body) ELSE "zero"
    IN  Fresh("zai", IF level \in {"high", "over"} THEN "warning" ELSE "ok",
              level, plan, t)

getOpenAIStatusEntry(config) ==
    IF config.cred["openai"] = ""
    THEN Direct("nocred", ErrorStatus("openai", "key_not_configured"))
    ELSE CacheOrFetch("openai")

getOpenAIStatusResult(config, resp, t) ==
    IF resp.err THEN Failed("openai", "api_error")
    ELSE IF variant = "admin"
    THEN IF ~Parses(resp.body) THEN Failed("openai", "invalid_response")
         ELSE IF HasErrorKey(resp.body) THEN Failed("openai", "upstream_message")
         ELSE Fresh("openai", "ok", Level(resp.body), FALSE, t)
    ELSE IF resp.code # 200
    THEN IF Parses(resp.body) /\ HasErrorKey(resp.body)
         THEN Failed("openai", "upstream_message")
         ELSE Failed("openai", "http_error")
    ELSE IF ~Parses(resp.body) THEN Failed("openai", "invalid_json")
    ELSE IF variant = "push"
    THEN Fresh("openai", "ok", Level(resp.body), FALSE, t)
    ELSE Fresh("openai",
               IF config.budget # "" /\ Level(resp.body) = "over" THEN "error"
               ELSE IF config.budget # "" /\ Level(resp.body) = "high" THEN "warning"
               ELSE "ok",
               Level(resp.body), FALSE, t)

\* the answers of the token endpoint
TokenBodies == {"garbage", "empty", "access", "both"}
TokenResponses ==
    {[err |-> TRUE, code |-> 0, body |-> "none"]}
    \cup [err : {FALSE}, code : {200, 500}, body : TokenBodies]
FewTokenResponses ==
    {[err |-> TRUE, code |-> 0, body |-> "none"],
     [err |-> FALSE, code |-> 200, body |-> "both"]}

\* the settings store before any p.API.SavePluginConfig
NothingSaved == [saved |-> FALSE, config |-> EmptyConfiguration]
\* p.API.SavePluginConfig(cfgMap), cfgMap being the marshalled Configuration
SavePluginConfig(config) == [saved |-> TRUE, config |-> config]

\* no status formula evaluated
NoCalc == [fn |-> "none"]

\* no push has stored a record
NoPush == [some |-> FALSE, rec |-> DisabledHint("none"), at |-> 0]

\* a refreshClaudeToken that takes any answer of the token endpoint that
\* arrives for a grant
refreshClaudeTokenLenient(tok) == IF tok.err THEN "" ELSE "k2"

\* the access token refreshClaudeToken returns ("" with an error)
refreshClaudeToken(tok) ==
    IF tok.err \/ tok.code # 200 \/ tok.body \notin {"access", "both"}
    THEN "" ELSE "k2"

\* the Configuration object after refreshClaudeToken has run on it
refreshedConfiguration(config, tok) ==
    IF refreshClaudeToken(tok) = "" THEN config
    ELSE [config EXCEPT !.cred["claude"] = "k2",
                        !.refresh = IF tok.body = "both" THEN "r2" ELSE @]

WaitingPlaceholder ==
    ServiceStatus("claude", TRUE, "warning", NoData, "waiting_for_push", 0)
AdminKeyMissing ==
    ServiceStatus("claude", TRUE, "ok", [level |-> "message", plan |-> FALSE], "", 0)

\* a getClaudeStatus that polls in every build
getClaudeStatusEntryPolling(config) ==
    IF ~config.enabled["claude"]
    THEN Direct("disabled", ServiceStatus("claude", FALSE, "disabled", NoData, "", 0))
    ELSE IF variant # "push" /\ config.cred["claude"] = ""
    THEN Direct("nocred", ErrorStatus("claude", "token_not_configured"))
    ELSE CacheOrFetch("claude")

getClaudeStatusEntry(config) ==
    CASE variant = "pull" ->
           IF ~config.enabled["claude"]
           THEN Direct("disabled", ServiceStatus("claude", FALSE, "disabled", NoData, "", 0))
           ELSE IF config.cred["claude"] = ""
           THEN Direct("nocred", ErrorStatus("claude", "token_not_configured"))
           ELSE CacheOrFetch("claude")
      [] variant = "push" ->
           IF ~config.enabled["claude"]
           THEN Direct("disabled", ServiceStatus("claude", FALSE, "disabled", NoData, "", 0))
           ELSE IF getCached("claude").found
           THEN Direct("cache", getCached("claude").value)
           ELSE Direct("placeholder", WaitingPlaceholder)
      [] variant = "admin" ->
           IF config.cred["claude"] = ""
           THEN Direct("nocred", AdminKeyMissing)
           ELSE IF getCached("claude").found
           THEN Direct("cache", getCached("claude").value)
           ELSE [fetch |-> TRUE, src |-> "local", rec |-> DisabledHint("none")]

\* fmt.Sprintf("HTTP %d: %s", resp.StatusCode, ...)
HTTPError(code) ==
    CASE code = 401 -> "http_401" [] code = 403 -> "http_403"
      [] OTHER -> "http_error"

\* the response the pull resolver goes on with after the 401/403 branch
claudeEffectiveResponse(config, resp, tok, retry) ==
    IF AuthError(resp) /\ config.refresh # "" /\ refreshClaudeToken(tok) # ""
       /\ ~retry.err
    THEN retry ELSE resp

getClaudeStatusResult(config, resp, tok, retry, t) ==
    IF variant = "admin"
    THEN Fresh("claude", "ok", "soon", FALSE, t)
    ELSE IF resp.err THEN Failed("claude", "api_error")
    ELSE LET eff == claudeEffectiveResponse(config, resp, tok, retry)
         IN  IF eff.code # 200 THEN Failed("claude", HTTPError(eff.code))
             ELSE IF ~Parses(eff.body) THEN Failed("claude", "invalid_json")
             ELSE Fresh("claude",
                        IF Level(eff.body) = "over" THEN "error"
                        ELSE IF Level(eff.body) = "high" THEN "warning"
                        ELSE "ok",
                        Level(eff.body), Level(eff.body) # "zero", t)

\* ------------------------------------------------------- request goroutines
\* code is the status code of the response (200 unless ServeHTTP or
\* handleClaudePush writes another), reply the "status" member of the body
\* handleClaudePush answers with; held is the usage response getClaudeStatus keeps while it
\* refreshes the token.  look, cut, alone and calls are history: the time of the current
\* resolver's cache lookup, whether the cache was invalidated since that
\* lookup, whether no other request was in flight since this one began, and
\* the requests the current getClaudeStatus of the pull build has sent; sent
\* is the refresh token in the form data of its request to the token endpoint
NoCalls == [usage |-> 0, token |-> 0]
IdleProc ==
    [pc |-> "idle", kind |-> "none", config |-> 0, idx |-> 0,
     services |-> <<>>, src |-> <<>>, held |-> TransportFailure,
     look |-> 0, cut |-> FALSE, alone |-> TRUE, calls |-> NoCalls,
     code |-> 200, reply |-> "", sent |-> ""]

\* the goroutine waits for an upstream: for the answer of its (first)
\* request, of the token endpoint, or of the retried usage request
Waiting(pr) == pr.pc \in {"http", "token", "retry"}

\* the Configuration a handler reads through its pointer
ConfigAt(ptr) == IF ptr = 0 THEN EmptyConfiguration ELSE cfgs[ptr]

InFlight(r) == proc[r].pc # "idle"

\* a model in which a goroutine keeps the locks while it waits for its
\* upstream, so that no step that needs one can be taken meanwhile
QuietOrLocked == \A r \in Procs : proc[r].pc # "done" /\ ~Waiting(proc[r])

\* No handler stands between its last resolver and the write of its
\* response.  Encoding the response is the handler's own work, so it is
\* taken before any other goroutine's next step.
Quiet == \A r \in Procs : proc[r].pc # "done"

\* history bookkeeping
\* rec: the record returned; look: the time of the cache lookup; stored:
\* whether setCache ran; failed: whether the upstream call failed
NoFetch ==
    [some |-> FALSE, rec |-> DisabledHint("none"), look |-> 0, stored |-> FALSE,
     failed |-> FALSE]
NoHistory == [p \in ProviderSet |-> NoFetch]
Fetched(p, rec, look, stored, failed) ==
    [last EXCEPT ![p] = [some |-> TRUE, rec |-> rec, look |-> look,
                         stored |-> stored, failed |-> failed]]
\* the goroutines after an invalidation of the keys in ks
Cut(ks) ==
    [r \in Procs |->
       IF Waiting(proc[r]) /\ Providers[proc[r].idx] \in ks
       THEN [proc[r] EXCEPT !.cut = TRUE] ELSE proc[r]]

\* the resolver of provider p, up to its upstream call
ResolverEntry(p, config) ==
    CASE p = "augment" -> getAugmentStatusEntry(config)
      [] p = "zai"     -> getZaiStatusEntry(config)
      [] p = "openai"  -> getOpenAIStatusEntry(config)
      [] p = "claude"  -> getClaudeStatusEntry(config)

\* the response written at the end of handleGetStatus
Finished(services) ==
    IF variant = "admin" /\ services = <<>> THEN <<NonePlaceholder>>
    ELSE services

\* the goroutine after appending rec for its current provider
Appended(pr, rec, src) ==
    [pr EXCEPT !.services = Append(pr.services, rec),
               !.src = Append(pr.src, src),
               !.idx = pr.idx + 1]

\* handleGetStatus from the current provider on, as far as it runs on the
\* handler's own data: the branch of a disabled provider (a hint record, or
\* nothing in the admin build) and a resolver that returns on a missing
\* credential touch neither lock.  It stops in front of the first resolver
\* that reads the cache, or at the end, where the response is written.
RECURSIVE Advance(_)
Advance(pr) ==
    IF pr.idx > 4
    THEN [pr EXCEPT !.pc = "done", !.services = Finished(pr.services)]
    ELSE LET p      == Providers[pr.idx]
             config == ConfigAt(pr.config)
             entry  == ResolverEntry(p, config)
         IN  IF ~config.enabled[p]
             THEN IF variant = "admin"
                  THEN Advance([pr EXCEPT !.idx = pr.idx + 1])
                  ELSE Advance(Appended(pr, DisabledHint(p), "disabled"))
             ELSE IF entry.src \in {"nocred", "disabled"}
             THEN Advance(Appended(pr, entry.rec, entry.src))
             ELSE [pr EXCEPT !.pc = "resolve"]

\* ServeHTTP dispatching /api/v1/status and /api/v1/refresh
ServeHTTP(r, route) ==
    /\ Quiet
    /\ ~InFlight(r)
    /\ nreq < MaxRequests
    /\ nreq' = nreq + 1
    /\ proc' = [q \in Procs |->
                  IF q = r
                  THEN [IdleProc EXCEPT
                          !.kind = route,
                          !.pc = IF route = "refresh" THEN "clear" ELSE "getcfg",
                          !.alone = \A o \in Procs : ~InFlight(o)]
                  ELSE IF InFlight(q) THEN [proc[q] EXCEPT !.alone = FALSE]
                  ELSE proc[q]]
    /\ UNCHANGED <<pushed, store, calc, variant, cfgs, configuration, cfgPc, cfgChanges, cache,
                   now, npush, last>>

\* requests handled one at a time, each by the same goroutine
ServeHTTPAlone(route) ==
    /\ \A q \in Procs : ~InFlight(q)
    /\ ServeHTTP(1, route)

\* a refresh that goes on to handleGetStatus without replacing the map
handleRefreshKeeps(r) ==
    /\ Quiet
    /\ proc[r].pc = "clear"
    /\ proc' = [proc EXCEPT ![r].pc = "getcfg"]
    /\ UNCHANGED <<pushed, store, calc, variant, cfgs, configuration, cfgPc, cfgChanges, cache,
                   now, nreq, npush, last>>

\* handleRefresh: the locked section that replaces the map
handleRefresh(r) ==
    /\ Quiet
    /\ proc[r].pc = "clear"
    /\ cache' = EmptyCache
    /\ last' = NoHistory
    /\ proc' = [Cut(ProviderSet) EXCEPT ![r].pc = "getcfg"]
    /\ UNCHANGED <<pushed, store, calc, variant, cfgs, configuration, cfgPc, cfgChanges, now, nreq, npush>>

\* handleGetStatus: config := p.getConfiguration(), then the providers
handleGetStatus(r) ==
    /\ Quiet
    /\ proc[r].pc = "getcfg"
    /\ proc' = [proc EXCEPT ![r] =
                  Advance([proc[r] EXCEPT !.config = configuration, !.idx = 1])]
    /\ UNCHANGED <<pushed, store, calc, variant, cfgs, configuration, cfgPc, cfgChanges, cache,
                   now, nreq, npush, last>>

\* a resolver that sends no request while another goroutine waits for the
\* answer to the same one, and returns an empty record instead
ResolveCoalesced(r) ==
    /\ Quiet
    /\ proc[r].pc = "resolve"
    /\ LET pr    == proc[r]
           p     == Providers[pr.idx]
           entry == ResolverEntry(p, ConfigAt(pr.config))
       IN  proc' = [proc EXCEPT ![r] =
                      IF entry.fetch /\ \E q \in Procs \ {r} :
                                           Waiting(proc[q]) /\ proc[q].idx = pr.idx
                      THEN Advance(Appended(pr, ErrorStatus(p, "in_flight"), "cache"))
                      ELSE IF entry.fetch
                      THEN [pr EXCEPT !.pc = "http", !.look = now, !.cut = FALSE,
                                      !.calls = IF variant = "pull" /\ p = "claude"
                                                THEN [usage |-> 1, token |-> 0]
                                                ELSE NoCalls]
                      ELSE Advance(Appended(pr, entry.rec, entry.src))]
    /\ UNCHANGED <<pushed, store, calc, variant, cfgs, configuration, cfgPc, cfgChanges, cache,
                   now, nreq, npush, last>>

\* a resolver reads the cache: it returns the cached record (or the waiting
\* placeholder of the push build), or sends its upstream request
Resolve(r) ==
    /\ Quiet
    /\ proc[r].pc = "resolve"
    /\ LET pr    == proc[r]
           p     == Providers[pr.idx]
           entry == ResolverEntry(p, ConfigAt(pr.config))
       IN  proc' = [proc EXCEPT ![r] =
                      IF entry.fetch
                      THEN [pr EXCEPT !.pc = "http", !.look = now, !.cut = FALSE,
                                      !.calls = IF variant = "pull" /\ p = "claude"
                                                THEN [usage |-> 1, token |-> 0]
                                                ELSE NoCalls]
                      ELSE Advance(Appended(pr, entry.rec, entry.src))]
    /\ UNCHANGED <<pushed, store, calc, variant, cfgs, configuration, cfgPc, cfgChanges, cache,
                   now, nreq, npush, last>>

\* the response leaves: json.NewEncoder(w).Encode(resp), and the goroutine ends
Respond(r) ==
    /\ proc[r].pc = "done"
    /\ proc' = [proc EXCEPT ![r] = IdleProc]
    /\ UNCHANGED <<pushed, store, calc, variant, cfgs, configuration, cfgPc, cfgChanges, cache,
                   now, nreq, npush, last>>

\* the resolver of provider p from the upstream answers on
ResolverResult(p, config, resp, second, tok) ==
    CASE p = "augment" -> getAugmentStatusResult(resp, now)
      [] p = "zai"     -> getZaiStatusResult(resp, second, now)
      [] p = "openai"  -> getOpenAIStatusResult(config, resp, now)
      [] p = "claude"  -> getClaudeStatusResult(config, resp, tok, second, now)

\* whether the pull resolver of claude calls refreshClaudeToken
Refreshes(p, config, resp) ==
    /\ variant = "pull" /\ p = "claude"
    /\ AuthError(resp) /\ config.refresh # ""

\* whether the upstream did not deliver: a transport failure or a status
\* other than 200 on a call whose answer the resolver uses
UpstreamFailed(p, config, resp, second, tok) ==
    CASE p = "zai" ->
           resp.err \/ resp.code # 200 \/ second.err \/ second.code # 200
      [] p = "claude" /\ variant = "admin" -> FALSE
      [] p = "claude" ->
           resp.err \/ claudeEffectiveResponse(config, resp, tok, second).code # 200
      [] OTHER -> resp.err \/ resp.code # 200

\* an end of the resolver that drops the entry when nothing is stored
FinishEvicting(r, result, failed) ==
    LET pr == proc[r]
        p  == Providers[pr.idx]
    IN  /\ cache' = IF result.store THEN setCache(p, result.rec)
                    ELSE [cache EXCEPT ![p] = NoEntry]
        /\ last' = IF pr.cut THEN last
                   ELSE Fetched(p, result.rec, pr.look, result.store, failed)
        /\ proc' = [proc EXCEPT ![r] =
                      Advance(Appended([pr EXCEPT !.held = TransportFailure],
                                       result.rec, "fetch"))]

\* the end of the resolver goroutine r waits in: the record is stored (when
\* the resolver calls setCache) and appended
Finish(r, result, failed) ==
    LET pr == proc[r]
        p  == Providers[pr.idx]
    IN  /\ cache' = IF result.store THEN setCache(p, result.rec) ELSE cache
        /\ last' = IF pr.cut THEN last
                   ELSE Fetched(p, result.rec, pr.look, result.store, failed)
        /\ proc' = [proc EXCEPT ![r] =
                      Advance(Appended([pr EXCEPT !.held = TransportFailure],
                                       result.rec, "fetch"))]

\* the rest of a resolver: the upstream answers arrive (resp; second is the
\* quota answer of zai), the record is built, stored and appended.  In the
\* pull build getClaudeStatus, on 401/403 with a refresh token, goes on to
\* refreshClaudeToken and sends the request to the token endpoint.
Complete(r, resp, second, tok) ==
    /\ Quiet
    /\ proc[r].pc = "http"
    /\ LET pr     == proc[r]
           p      == Providers[pr.idx]
           config == ConfigAt(pr.config)
       IN  IF Refreshes(p, config, resp)
           THEN /\ proc' = [proc EXCEPT ![r] =
                              [pr EXCEPT !.pc = "token", !.held = resp,
                                         !.calls.token = @ + 1,
                                         !.sent = config.refresh]]
                /\ UNCHANGED <<cache, last>>
           ELSE Finish(r, ResolverResult(p, config, resp, second, tok),
                       UpstreamFailed(p, config, resp, second, tok))
    /\ UNCHANGED <<pushed, store, calc, variant, cfgs, configuration, cfgPc, cfgChanges,
                   now, nreq, npush>>

\* a token endpoint answer with which refreshClaudeToken succeeds
TokenGranted == [err |-> FALSE, code |-> 200, body |-> "access"]

\* a refreshClaudeToken that writes the Configuration and does not call
\* SavePluginConfig
refreshClaudeTokenUnsaved(r, tok) ==
    /\ Quiet
    /\ proc[r].pc = "token"
    /\ LET pr     == proc[r]
           config == ConfigAt(pr.config)
       IN  IF refreshClaudeToken(tok) = ""
           THEN /\ Finish(r, getClaudeStatusResult(config, pr.held, tok,
                                                   TransportFailure, now), TRUE)
                /\ UNCHANGED <<cfgs, store>>
           ELSE /\ cfgs' = [cfgs EXCEPT ![pr.config] =
                                    refreshedConfiguration(config, tok)]
                /\ proc' = [proc EXCEPT ![r] =
                              [pr EXCEPT !.pc = "retry", !.calls.usage = @ + 1]]
                /\ UNCHANGED <<cache, last, store>>
    /\ UNCHANGED <<pushed, calc, variant, configuration, cfgPc, cfgChanges, now, nreq,
                   npush>>

\* refreshClaudeToken from the token endpoint's answer on.  Without a new
\* token getClaudeStatus ends with the response it holds; with one the
\* Configuration the handler holds is written, handed to SavePluginConfig,
\* and the usage request is sent again.
refreshClaudeTokenAnswer(r, tok) ==
    /\ Quiet
    /\ proc[r].pc = "token"
    /\ LET pr     == proc[r]
           config == ConfigAt(pr.config)
       IN  IF refreshClaudeToken(tok) = ""
           THEN /\ Finish(r, getClaudeStatusResult(config, pr.held, tok,
                                                   TransportFailure, now), TRUE)
                /\ UNCHANGED <<cfgs, store>>
           ELSE /\ cfgs' = [cfgs EXCEPT ![pr.config] =
                                    refreshedConfiguration(config, tok)]
                /\ store' = SavePluginConfig(refreshedConfiguration(config, tok))
                /\ proc' = [proc EXCEPT ![r] =
                              [pr EXCEPT !.pc = "retry", !.calls.usage = @ + 1]]
                /\ UNCHANGED <<cache, last>>
    /\ UNCHANGED <<pushed, calc, variant, configuration, cfgPc, cfgChanges, now, nreq,
                   npush>>

\* a retry that refreshes the token again when the retried request is
\* answered 401/403 as well
getClaudeStatusRetriedAgain(r, retry) ==
    /\ Quiet
    /\ proc[r].pc = "retry"
    /\ LET pr     == proc[r]
           config == ConfigAt(pr.config)
       IN  IF AuthError(retry)
           THEN /\ proc' = [proc EXCEPT ![r] =
                              [pr EXCEPT !.pc = "token", !.held = retry,
                                         !.calls.token = @ + 1]]
                /\ UNCHANGED <<cache, last>>
           ELSE Finish(r, getClaudeStatusResult(config, pr.held, TokenGranted, retry, now),
                       UpstreamFailed("claude", config, pr.held, retry, TokenGranted))
    /\ UNCHANGED <<pushed, store, calc, variant, cfgs, configuration, cfgPc, cfgChanges,
                   now, nreq, npush>>

\* getClaudeStatus from the answer of the retried usage request on
getClaudeStatusRetried(r, retry) ==
    /\ Quiet
    /\ proc[r].pc = "retry"
    /\ LET pr     == proc[r]
           config == ConfigAt(pr.config)
       IN  Finish(r, getClaudeStatusResult(config, pr.held, TokenGranted, retry, now),
                  UpstreamFailed("claude", config, pr.held, retry, TokenGranted))
    /\ UNCHANGED <<pushed, store, calc, variant, cfgs, configuration, cfgPc, cfgChanges,
                   now, nreq, npush>>

\* ------------------------------------------------------------ the push route
PushPayloads == {"badjson", "error", "low", "high", "rejected"}

\* the record handleClaudePush builds from a payload without error field
PushedStatus(payload, t) ==
    ServiceStatus("claude", TRUE,
                  IF payload = "rejected" THEN "error"
                  ELSE IF payload = "high" THEN "warning" ELSE "ok",
                  [level |-> payload, plan |-> FALSE], "", t)

\* a handleClaudePush that stores nothing for a payload with an error field
PushedCacheSkipsError(payload) ==
    CASE payload \in {"badjson", "error"} -> cache
      [] OTHER ->
           [cache EXCEPT !["claude"] =
              CacheEntry(PushedStatus(payload, now), now + PushHeadroom)]

\* the cache after handleClaudePush
PushedCache(payload) ==
    CASE payload = "badjson" -> cache
      [] payload = "error" ->
           setCache("claude",
                    ServiceStatus("claude", TRUE, "error", NoData, "pushed_error", now))
      [] OTHER ->
           [cache EXCEPT !["claude"] =
              CacheEntry(PushedStatus(payload, now), now + PushHeadroom)]

\* history: the record a push stored takes the place of a fetched one
PushedHistory(payload) ==
    IF payload = "badjson" THEN last
    ELSE Fetched("claude", PushedCache(payload)["claude"].data, now, TRUE, FALSE)

\* history: the latest push that stored a record
PushedLog(payload) ==
    IF payload = "badjson" THEN pushed
    ELSE [some |-> TRUE, rec |-> PushedCache(payload)["claude"].data, at |-> now]

\* an answer that takes a body that does not decode for an accepted push
PushReplyAccepting(payload) ==
    [IdleProc EXCEPT
        !.kind = "claude-push", !.pc = "done",
        !.code = 200,
        !.reply = IF payload = "error" THEN "error_stored" ELSE "ok"]

\* the answer of handleClaudePush: 400 for a body that does not decode,
\* else 200 with {"status": "error_stored"} or {"status": "ok"}
PushReply(payload) ==
    [IdleProc EXCEPT
        !.kind = "claude-push", !.pc = "done",
        !.code = IF payload = "badjson" THEN 400 ELSE 200,
        !.reply = CASE payload = "badjson" -> ""
                    [] payload = "error" -> "error_stored"
                    [] OTHER -> "ok"]

\* a push stored by setCache, with the time of the push
handleClaudePushPlain(r, payload) ==
    /\ Quiet
    /\ ~InFlight(r)
    /\ variant = "push"
    /\ payload # "badjson" => npush < MaxPushes
    /\ npush' = IF payload = "badjson" THEN npush ELSE npush + 1
    /\ cache' = IF payload = "badjson" THEN cache
                ELSE setCache("claude", PushedCache(payload)["claude"].data)
    /\ last' = PushedHistory(payload)
    /\ pushed' = PushedLog(payload)
    /\ proc' = [proc EXCEPT ![r] = PushReply(payload)]
    /\ UNCHANGED <<store, calc, variant, cfgs, configuration, cfgPc, cfgChanges, now,
                   nreq>>

\* ServeHTTP dispatching /api/v1/claude-push (push build only); npush
\* counts the pushes that stored a record
handleClaudePush(r, payload) ==
    /\ Quiet
    /\ ~InFlight(r)
    /\ variant = "push"
    /\ payload # "badjson" => npush < MaxPushes
    /\ npush' = IF payload = "badjson" THEN npush ELSE npush + 1
    /\ cache' = PushedCache(payload)
    /\ last' = PushedHistory(payload)
    /\ pushed' = PushedLog(payload)
    /\ proc' = [proc EXCEPT ![r] = PushReply(payload)]
    /\ UNCHANGED <<store, calc, variant, cfgs, configuration, cfgPc, cfgChanges, now,
                   nreq>>

handleClaudePushAlone(payload) ==
    /\ \A q \in Procs : ~InFlight(q)
    /\ handleClaudePush(1, payload)

\* ------------------------------------------------------- the whole ServeHTTP
Routes == {"status", "refresh", "claude-push", "access"}
\* the Mattermost-User-Id header ("" when absent)
UserIDs == {"", "u1", "u2"}
\* what the host answers: lookup, whether p.API.GetUser succeeds; member,
\* whether p.API.GetTeamMember finds the user in a team of AllowedTeamIds
Hosts == [lookup : BOOLEAN, member : BOOLEAN]

checkAccess(config, userID, host) ==
    IF config.users = {} /\ ~config.teams THEN TRUE
    ELSE \/ userID \in config.users
         \/ config.teams /\ host.member

\* an answer of ServeHTTP that also replaces the cache
ReplyClearing(r, route, code) ==
    /\ Quiet
    /\ ~InFlight(r)
    /\ proc' = [proc EXCEPT ![r] =
                  [IdleProc EXCEPT !.kind = route, !.pc = "done", !.code = code]]
    /\ cache' = EmptyCache
    /\ UNCHANGED <<pushed, store, calc, variant, cfgs, configuration, cfgPc, cfgChanges,
                   now, nreq, npush, last>>

\* ServeHTTP answers by itself: http.Error, http.NotFound or the body of
\* /api/v1/access
Reply(r, route, code) ==
    /\ Quiet
    /\ ~InFlight(r)
    /\ proc' = [proc EXCEPT ![r] =
                  [IdleProc EXCEPT !.kind = route, !.pc = "done", !.code = code]]
    /\ UNCHANGED <<pushed, store, calc, variant, cfgs, configuration, cfgPc, cfgChanges,
                   cache, now, nreq, npush, last>>

\* a ServeHTTP that turns away users who are in no team
ServeHTTPFromMembers(r, route, userID, host, payload) ==
    IF userID = "" THEN Reply(r, route, 401)
    ELSE IF variant = "pull" /\ ~checkAccess(getConfiguration, userID, host)
    THEN Reply(r, route, 403)
    ELSE IF variant # "pull" /\ ~host.lookup THEN Reply(r, route, 500)
    ELSE IF ~host.member THEN Reply(r, route, 403)
    ELSE CASE route \in {"status", "refresh"} -> ServeHTTP(r, route)
           [] route = "claude-push" /\ variant = "push" -> handleClaudePush(r, payload)
           [] route = "access" /\ variant = "pull" -> Reply(r, route, 200)
           [] OTHER -> Reply(r, route, 404)

\* ServeHTTP for a request to an /api/ path: the identity header, the
\* access check (checkAccess in the pull build, GetUser in the others), then
\* the route.  ServeHTTP(r, route) above is its dispatch to handleGetStatus
\* and handleRefresh.
ServeHTTPFrom(r, route, userID, host, payload) ==
    IF userID = "" THEN Reply(r, route, 401)
    ELSE IF variant = "pull" /\ ~checkAccess(getConfiguration, userID, host)
    THEN Reply(r, route, 403)
    ELSE IF variant # "pull" /\ ~host.lookup THEN Reply(r, route, 500)
    ELSE CASE route \in {"status", "refresh"} -> ServeHTTP(r, route)
           [] route = "claude-push" /\ variant = "push" -> handleClaudePush(r, payload)
           [] route = "access" /\ variant = "pull" -> Reply(r, route, 200)
           [] OTHER -> Reply(r, route, 404)

\* requests handled one at a time, each by the same goroutine
ServeHTTPFromAlone(route, userID, host, payload) ==
    /\ \A q \in Procs : ~InFlight(q)
    /\ ServeHTTPFrom(1, route, userID, host, payload)

\* ------------------------------------------------- OnConfigurationChange
\* LoadPluginConfiguration fails: the hook returns the error
OnConfigurationChangeFails ==
    /\ Quiet
    /\ cfgPc = "idle"
    /\ cfgChanges < MaxCfgChanges
    /\ cfgChanges' = cfgChanges + 1
    /\ UNCHANGED <<pushed, store, calc, variant, cfgs, configuration, cfgPc, cache, now, proc,
                   nreq, npush, last>>

\* the new snapshot is installed under configurationLock
OnConfigurationChange(loaded) ==
    /\ Quiet
    /\ cfgPc = "idle"
    /\ cfgChanges < MaxCfgChanges
    /\ cfgChanges' = cfgChanges + 1
    /\ cfgs' = Append(cfgs, loaded)
    /\ configuration' = Len(cfgs) + 1
    /\ cfgPc' = "clear"
    /\ last' = NoHistory
    /\ proc' = Cut(ProviderSet)
    /\ UNCHANGED <<pushed, store, calc, variant, cache, now, nreq, npush>>

\* a hook that ends after the installation and leaves the cache as it is
OnConfigurationChangeKeepsCache ==
    /\ Quiet
    /\ cfgPc = "clear"
    /\ cfgPc' = "idle"
    /\ last' = NoHistory
    /\ proc' = Cut(ProviderSet)
    /\ UNCHANGED <<pushed, store, calc, variant, cfgs, configuration, cfgChanges, now, nreq,
                   npush, cache>>

\* ... and then the cache is replaced under cacheLock
OnConfigurationChangeClear ==
    /\ Quiet
    /\ cfgPc = "clear"
    /\ cache' = EmptyCache
    /\ cfgPc' = "idle"
    /\ last' = NoHistory
    /\ proc' = Cut(ProviderSet)
    /\ UNCHANGED <<pushed, store, calc, variant, cfgs, configuration, cfgChanges, now, nreq, npush>>

\* ------------------------------------------------------------------ the clock
Tick ==
    /\ Quiet
    /\ now < MaxTicks * TickSeconds
    /\ now' = now + TickSeconds
    /\ UNCHANGED <<pushed, store, calc, variant, cfgs, configuration, cfgPc, cfgChanges, cache,
                   proc, nreq, npush, last>>

\* more than the headroom of a pushed entry passes
LongTick ==
    /\ Quiet
    /\ now < PushHeadroom
    /\ now' = now + PushHeadroom + TickSeconds
    /\ UNCHANGED <<pushed, store, calc, variant, cfgs, configuration, cfgPc, cfgChanges, cache,
                   proc, nreq, npush, last>>

\* ------------------------------------------------------------ specifications
\* whether p is the first provider of config that polls an upstream
FirstPolling(p, config) ==
    /\ config.enabled[p] /\ config.cred[p] # ""
    /\ \A i \in 1..4 :
         (Providers[i] # p /\ config.enabled[Providers[i]]
          /\ config.cred[Providers[i]] # "")
         => \E j \in 1..(i - 1) : Providers[j] = p

\* the upstream answers a resolver can receive: (first, second, token)
AllAnswers(p, config) ==
    CASE p = "claude" /\ variant = "admin" ->
           {<<TransportFailure, TransportFailure, TransportFailure>>}
      [] ~FirstPolling(p, config) ->
           FewResponses \X FewResponses \X {TransportFailure}
      [] p = "zai" -> HTTPResponses \X HTTPResponses \X {TransportFailure}
      [] p = "claude" /\ variant = "pull" ->
           (HTTPResponses \X {TransportFailure} \X {TransportFailure})
           \cup ({Unauthorized, Forbidden} \X (HTTPResponses \cup {Unauthorized})
                    \X TokenResponses)
      [] OTHER -> HTTPResponses \X {TransportFailure} \X {TransportFailure}

\* the answers given where requests interleave
Answers(p) ==
    CASE p = "claude" /\ variant = "admin" ->
           {<<TransportFailure, TransportFailure, TransportFailure>>}
      [] p = "zai" -> FewResponses \X FewResponses \X {TransportFailure}
      [] p = "claude" /\ variant = "pull" ->
           (FewResponses \X {TransportFailure} \X {TransportFailure})
           \cup ({Unauthorized} \X FewResponses \X FewTokenResponses)
      [] OTHER -> FewResponses \X {TransportFailure} \X {TransportFailure}

Init ==
    /\ variant \in Variants
    /\ \/ cfgs = <<>> /\ configuration = 0
       \/ \E loaded \in LoadableConfigs(variant) :
             cfgs = <<loaded>> /\ configuration = 1
    /\ cfgPc = "idle"
    /\ cfgChanges = 0
    /\ cache = EmptyCache
    /\ now = 0
    /\ proc = [r \in Procs |-> IdleProc]
    /\ nreq = 0
    /\ npush = 0
    /\ last = NoHistory
    /\ store = NothingSaved
    /\ calc = NoCalc
    /\ pushed = NoPush

Fetching(r, p) == Waiting(proc[r]) /\ Providers[proc[r].idx] = p

\* the upstream of goroutine r answers, with one of the answers given where
\* requests interleave
Answer(r) ==
    \E p \in ProviderSet :
        /\ Fetching(r, p)
        /\ \E a \in Answers(p) : Complete(r, a[1], a[2], a[3])

\* the upstream of goroutine r answers, with any answer
AnswerAny(r) ==
    \E p \in ProviderSet :
        /\ Fetching(r, p)
        /\ \E a \in AllAnswers(p, ConfigAt(proc[r].config)) :
              Complete(r, a[1], a[2], a[3])

\* the token endpoint answers goroutine r
TokenAnswer(r) == \E tok \in FewTokenResponses : refreshClaudeTokenAnswer(r, tok)
TokenAnswerAny(r) == \E tok \in TokenResponses : refreshClaudeTokenAnswer(r, tok)

\* the retried usage request of goroutine r is answered
RetryAnswer(r) == \E retry \in FewResponses : getClaudeStatusRetried(r, retry)
RetryAnswerAny(r) ==
    \E retry \in HTTPResponses \cup {Unauthorized} : getClaudeStatusRetried(r, retry)

Next ==
    \/ \E r \in Procs, route \in {"status", "refresh"} : ServeHTTP(r, route)
    \/ \E r \in Procs : handleRefresh(r)
    \/ \E r \in Procs : handleGetStatus(r)
    \/ \E r \in Procs : Resolve(r)
    \/ \E r \in Procs : Respond(r)
    \/ \E r \in Procs : Answer(r)
    \/ \E r \in Procs : TokenAnswer(r)
    \/ \E r \in Procs : RetryAnswer(r)
    \/ Tick

\* concurrent status and refresh requests under one configuration
Spec == Init /\ [][Next]_vars

NextSeq ==
    \/ \E route \in {"status", "refresh"} : ServeHTTPAlone(route)
    \/ \E r \in Procs : handleRefresh(r)
    \/ \E r \in Procs : handleGetStatus(r)
    \/ \E r \in Procs : Resolve(r)
    \/ \E r \in Procs : Respond(r)
    \/ \E r \in Procs : Answer(r)
    \/ \E r \in Procs : TokenAnswer(r)
    \/ \E r \in Procs : RetryAnswer(r)
    \/ \E payload \in PushPayloads : handleClaudePushAlone(payload)
    \/ Tick

\* requests handled one after another under one configuration
SpecSeq == Init /\ [][NextSeq]_vars

\* an override of the admin build beyond the seconds a duration holds
WrappingOverride == <<"9", "2", "2", "3", "3", "7", "2", "0", "3", "7">>

InitTTL ==
    /\ variant \in Variants
    /\ \E loaded \in LoadableConfigs(variant)
                      \cup (IF variant = "admin"
                            THEN {ConfigOf(variant, m, WrappingOverride) :
                                    m \in LoadableModes}
                            ELSE {}) :
          cfgs = <<loaded>> /\ configuration = 1
    /\ cfgPc = "idle"
    /\ cfgChanges = 0
    /\ cache = EmptyCache
    /\ now = 0
    /\ proc = [r \in Procs |-> IdleProc]
    /\ nreq = 0
    /\ npush = 0
    /\ last = NoHistory
    /\ store = NothingSaved
    /\ calc = NoCalc
    /\ pushed = NoPush

\* requests handled one after another, also under an override of the TTL
\* that no duration holds
SpecTTL == InitTTL /\ [][NextSeq]_vars

NextCfg ==
    \/ \E route \in {"status", "refresh"} : ServeHTTPAlone(route)
    \/ \E r \in Procs : handleRefresh(r)
    \/ \E r \in Procs : handleGetStatus(r)
    \/ \E r \in Procs : Resolve(r)
    \/ \E r \in Procs : Respond(r)
    \/ \E r \in Procs : Answer(r)
    \/ \E r \in Procs : TokenAnswer(r)
    \/ \E r \in Procs : RetryAnswer(r)
    \/ OnConfigurationChangeFails
    \/ \E loaded \in LoadableConfigs(variant) : OnConfigurationChange(loaded)
    \/ OnConfigurationChangeClear

\* requests handled one after another, while the configuration changes
SpecCfg == Init /\ [][NextCfg]_vars

\* one request, from any configuration and cache
ServeHTTPOnce(route) ==
    /\ nreq = 0
    /\ ServeHTTP(1, route)

Ok200 == [err |-> FALSE, code |-> 200, body |-> "low"]

\* an entry a resolver (or, for claude in the push build, a push) stored at
\* time 0
SeedEntry(p, v, config) ==
    CASE p = "augment" -> CacheEntry(getAugmentStatusResult(Ok200, 0).rec, 0)
      [] p = "zai"     -> CacheEntry(getZaiStatusResult(Ok200, Ok200, 0).rec, 0)
      [] p = "openai"  -> CacheEntry(ServiceStatus("openai", TRUE, "ok",
                                       [level |-> "low", plan |-> FALSE], "", 0), 0)
      [] p = "claude" /\ v = "push" ->
           CacheEntry(PushedStatus("low", 0), PushHeadroom)
      [] p = "claude" /\ v = "admin" ->
           CacheEntry(ServiceStatus("claude", TRUE, "ok",
                        [level |-> "soon", plan |-> FALSE], "", 0), 0)
      [] OTHER -> CacheEntry(ServiceStatus("claude", TRUE, "ok",
                               [level |-> "low", plan |-> TRUE], "", 0), 0)

\* the caches of InitAgg: empty, one key stored, every key stored
SeedKeys == {{}, ProviderSet} \cup {{p} : p \in ProviderSet}

\* the ages of the seeded entries: none, one TTL, just beyond one TTL
SeedAges ==
    {0} \cup UNION {{ttl, ttl + 1} : ttl \in {DefaultTTL, ScanDigits(<<"1", "5", "0">>, 0)}}

InitAgg ==
    /\ variant \in Variants
    /\ \E loaded \in AllConfigs(variant), keys \in SeedKeys :
         /\ cfgs = <<loaded>>
         /\ cache = [p \in ProviderSet |->
                       IF p \in keys THEN SeedEntry(p, variant, loaded) ELSE NoEntry]
    /\ configuration = 1
    /\ cfgPc = "idle"
    /\ cfgChanges = 0
    /\ now \in SeedAges
    /\ proc = [r \in Procs |-> IdleProc]
    /\ nreq = 0
    /\ npush = 0
    /\ last = NoHistory
    /\ store = NothingSaved
    /\ calc = NoCalc
    /\ pushed = NoPush

NextAgg ==
    \/ \E route \in {"status", "refresh"} : ServeHTTPOnce(route)
    \/ \E r \in Procs : handleRefresh(r)
    \/ \E r \in Procs : handleGetStatus(r)
    \/ \E r \in Procs : Resolve(r)
    \/ \E r \in Procs : Respond(r)
    \/ \E r \in Procs : AnswerAny(r)
    \/ \E r \in Procs : TokenAnswerAny(r)
    \/ \E r \in Procs : RetryAnswerAny(r)

\* one request, from any configuration and cache, with every upstream answer
SpecAgg == InitAgg /\ [][NextAgg]_vars

\* the settings of the pull build with which getClaudeStatus polls: access
\* token with and without refresh token
OAuthConfigs ==
    LET c == ConfigOf("pull", ModeVector("off", "off", "off", "on"), <<>>)
    IN  {c, [c EXCEPT !.refresh = ""]}

InitOAuth ==
    /\ variant = "pull"
    /\ \E loaded \in OAuthConfigs : cfgs = <<loaded>>
    /\ configuration = 1
    /\ cfgPc = "idle"
    /\ cfgChanges = 0
    /\ cache = EmptyCache
    /\ now = 0
    /\ proc = [r \in Procs |-> IdleProc]
    /\ nreq = 0
    /\ npush = 0
    /\ last = NoHistory
    /\ store = NothingSaved
    /\ calc = NoCalc
    /\ pushed = NoPush

NextOAuth ==
    \/ \E r \in Procs, route \in {"status", "refresh"} : ServeHTTP(r, route)
    \/ \E r \in Procs : handleRefresh(r)
    \/ \E r \in Procs : handleGetStatus(r)
    \/ \E r \in Procs : Resolve(r)
    \/ \E r \in Procs : Respond(r)
    \/ \E r \in Procs : AnswerAny(r)
    \/ \E r \in Procs : TokenAnswerAny(r)
    \/ \E r \in Procs : RetryAnswerAny(r)

\* concurrent requests of the pull build that resolve claude, with every
\* answer of the usage and token endpoints
SpecOAuth == InitOAuth /\ [][NextOAuth]_vars

\* the settings with an allow-list (pull build)
AccessConfigs ==
    LET c == ConfigOf("pull", ModeVector("off", "on", "off", "nocred"), <<>>)
    IN  {[c EXCEPT !.users = {"u1"}], [c EXCEPT !.teams = TRUE]}

InitHTTP ==
    /\ variant \in Variants
    /\ \/ cfgs = <<>> /\ configuration = 0
       \/ \E loaded \in LoadableConfigs(variant)
                         \cup (IF variant = "pull" THEN AccessConfigs ELSE {}) :
             cfgs = <<loaded>> /\ configuration = 1
    /\ cfgPc = "idle"
    /\ cfgChanges = 0
    /\ cache = EmptyCache
    /\ now = 0
    /\ proc = [r \in Procs |-> IdleProc]
    /\ nreq = 0
    /\ npush = 0
    /\ last = NoHistory
    /\ store = NothingSaved
    /\ calc = NoCalc
    /\ pushed = NoPush

\* the bodies a request to the route carries: only handleClaudePush
\* decodes one
RequestBodies(route) == IF route = "claude-push" THEN PushPayloads ELSE {"badjson"}

NextHTTP ==
    \/ \E route \in Routes, userID \in UserIDs :
          \E host \in (IF userID = "" THEN {[lookup |-> TRUE, member |-> TRUE]}
                       ELSE Hosts),
             payload \in RequestBodies(route) :
             ServeHTTPFromAlone(route, userID, host, payload)
    \/ \E r \in Procs : handleRefresh(r)
    \/ \E r \in Procs : handleGetStatus(r)
    \/ \E r \in Procs : Resolve(r)
    \/ \E r \in Procs : Respond(r)
    \/ \E r \in Procs : Answer(r)
    \/ \E r \in Procs : TokenAnswer(r)
    \/ \E r \in Procs : RetryAnswer(r)
    \/ Tick
    \/ LongTick

\* the whole HTTP surface, requests handled one after another
SpecHTTP == InitHTTP /\ [][NextHTTP]_vars

\* settings under which a resolver fetches and a push is served, and the
\* settings a configuration change brings
LifeModes == {ModeVector("on", "off", "off", "on")}
LifeChanges == {ModeVector("on", "off", "off", "on"), ModeVector("off", "on", "off", "off")}

InitLife ==
    /\ variant \in Variants
    /\ \E m \in LifeModes : cfgs = <<ConfigOf(variant, m, <<>>)>>
    /\ configuration = 1
    /\ cfgPc = "idle"
    /\ cfgChanges = 0
    /\ cache = EmptyCache
    /\ now = 0
    /\ proc = [r \in Procs |-> IdleProc]
    /\ nreq = 0
    /\ npush = 0
    /\ last = NoHistory
    /\ store = NothingSaved
    /\ calc = NoCalc
    /\ pushed = NoPush

NextLife ==
    \/ \E route \in {"status", "refresh"} : ServeHTTPAlone(route)
    \/ \E r \in Procs : handleRefresh(r)
    \/ \E r \in Procs : handleGetStatus(r)
    \/ \E r \in Procs : Resolve(r)
    \/ \E r \in Procs : Respond(r)
    \/ \E r \in Procs : Answer(r)
    \/ \E r \in Procs : TokenAnswer(r)
    \/ \E r \in Procs : RetryAnswer(r)
    \/ \E payload \in PushPayloads : handleClaudePushAlone(payload)
    \/ OnConfigurationChangeFails
    \/ \E m \in LifeChanges : OnConfigurationChange(ConfigOf(variant, m, <<>>))
    \/ OnConfigurationChangeClear
    \/ LongTick

\* the life of the cache: requests handled one after another, pushes,
\* configuration changes and the passing of time
SpecLife == InitLife /\ [][NextLife]_vars

\* the upstreams are down before RecoveredAt (every call fails at transport
\* level) and reachable from then on (every call is answered 200 with a
\* usable body)
AnswerByHealth(r) ==
    \E p \in ProviderSet :
        /\ Fetching(r, p)
        /\ \E a \in Answers(p) :
              /\ IF now < RecoveredAt
                 THEN a[1] = TransportFailure
                      /\ (p = "zai" => a[2] = TransportFailure)
                 ELSE a[1] = Ok200 /\ (p = "zai" => a[2] = Ok200)
              /\ Complete(r, a[1], a[2], a[3])

NextRecover ==
    \/ \E route \in {"status", "refresh"} : ServeHTTPAlone(route)
    \/ \E r \in Procs : handleRefresh(r)
    \/ \E r \in Procs : handleGetStatus(r)
    \/ \E r \in Procs : Resolve(r)
    \/ \E r \in Procs : Respond(r)
    \/ \E r \in Procs : AnswerByHealth(r)
    \/ Tick
    \/ LongTick

\* requests handled one after another while the upstreams fail and recover
SpecRecover == Init /\ [][NextRecover]_vars

\* the steps goroutine r takes once its request has arrived
Step(r) ==
    \/ handleRefresh(r)
    \/ handleGetStatus(r)
    \/ Resolve(r)
    \/ Respond(r)
    \/ Answer(r)
    \/ TokenAnswer(r)
    \/ RetryAnswer(r)

NextLive ==
    \/ \E r \in Procs, route \in {"status", "refresh"} : ServeHTTP(r, route)
    \/ \E r \in Procs : handleRefresh(r)
    \/ \E r \in Procs : handleGetStatus(r)
    \/ \E r \in Procs : Resolve(r)
    \/ \E r \in Procs : Respond(r)
    \/ \E r \in Procs : Answer(r)
    \/ \E r \in Procs : TokenAnswer(r)
    \/ \E r \in Procs : RetryAnswer(r)
    \/ \E r \in Procs, payload \in {"badjson", "low"} : handleClaudePush(r, payload)
    \/ OnConfigurationChangeFails
    \/ OnConfigurationChange(ConfigOf(variant, ModeVector("off", "off", "off", "on"), <<>>))
    \/ OnConfigurationChangeClear

\* claude alone is enabled at first; a configuration change installs a new
\* snapshot of the same settings
InitLive ==
    /\ variant \in Variants
    /\ cfgs = <<ConfigOf(variant, ModeVector("off", "off", "off", "on"), <<>>)>>
    /\ configuration = 1
    /\ cfgPc = "idle"
    /\ cfgChanges = 0
    /\ cache = EmptyCache
    /\ now = 0
    /\ proc = [r \in Procs |-> IdleProc]
    /\ nreq = 0
    /\ npush = 0
    /\ last = NoHistory
    /\ store = NothingSaved
    /\ calc = NoCalc
    /\ pushed = NoPush

\* Requests, pushes and configuration changes that overlap in time.  Every
\* goroutine goes on running (the Go scheduler is fair, a lock section ends,
\* every upstream call returns or runs into the Timeout of its http.Client),
\* and the hook goes on from the installation to the clearing.  The
\* fairness is strong because a step waits, in this model, for the response
\* another goroutine is writing (Quiet), however many responses are written.
SpecLive ==
    /\ InitLive /\ [][NextLive]_vars
    /\ \A r \in Procs : SF_vars(Step(r))
    /\ SF_vars(OnConfigurationChangeClear)

\* ------------------------------------------------- status formulas, in numbers
\* Amounts are whole numbers; utilizations of the usage endpoint are
\* percents, utilizations of a push are hundredths.  On these inputs the
\* float64 quotients of the code compare with 0.8 and 0.1 as the exact
\* quotients do, so x/y > 0.8 is 5x > 4y and x/y < 0.1 is 10x < y (y > 0).
\* the value of a string of digits
RECURSIVE Atoi(_)
Atoi(s) ==
    IF s = <<>> THEN 0
    ELSE 10 * Atoi(SubSeq(s, 1, Len(s) - 1)) + DigitValue(s[Len(s)])

\* the length of the longest prefix of digits
RECURSIVE DigitsLen(_)
DigitsLen(s) ==
    IF s = <<>> \/ DigitValue(Head(s)) < 0 THEN 0
    ELSE 1 + DigitsLen(Tail(s))

\* strconv.ParseFloat with its error dropped: the value of a string that
\* is a number, 0 for any other string
ParseFloat(s) ==
    IF s # <<>> /\ DigitsLen(s) = Len(s) THEN Atoi(s) ELSE 0

\* parseFloat of the push build, in hundredths: fmt.Sscanf("%f") reads the
\* longest prefix that is a number and leaves 0 when there is none
parseFloat(s) ==
    LET n == DigitsLen(s)
        rest == SubSeq(s, n + 1, Len(s))
        frac == IF rest # <<>> /\ Head(rest) = "."
                THEN SubSeq(Tail(rest), 1, DigitsLen(Tail(rest)))
                ELSE <<>>
    IN  IF n = 0 /\ frac = <<>> THEN 0
        ELSE 100 * Atoi(SubSeq(s, 1, n))
             + (IF frac = <<>> THEN 0
                ELSE IF Len(frac) = 1 THEN 10 * Atoi(frac)
                ELSE Atoi(SubSeq(frac, 1, 2)))

\* getAugmentStatus with the low-balance rule alone
augmentCreditInfoFlagOnly(raw) ==
    LET included == raw.included
        total == IF included > 0 THEN included ELSE raw.total
    IN  [usageTotal |-> total,
         usageUsed |-> total - raw.remaining,
         status |-> IF raw.isLow THEN "warning" ELSE "ok"]

\* getAugmentStatus: the credit info and the status computed from the
\* decoded body
augmentCreditInfo(raw) ==
    LET included == raw.included
        used0 == raw.total - raw.remaining
        total == IF included > 0 THEN included ELSE raw.total
        used == IF included > 0 THEN included - raw.remaining ELSE used0
    IN  [usageTotal |-> total,
         usageUsed |-> used,
         status |-> IF raw.isLow \/ (included > 0 /\ 10 * raw.remaining < included)
                    THEN "warning" ELSE "ok"]

\* getOpenAIStatus of the pull build: the status from the summed cost and
\* the budget setting
openAIBudgetStatus(in) ==
    LET Budget == IF in.budget # <<>> THEN ParseFloat(in.budget) ELSE 0
        warned == IF Budget > 0 /\ 5 * in.cost > 4 * Budget THEN "warning" ELSE "ok"
    IN  [budget |-> Budget,
         status |-> IF Budget > 0 /\ in.cost >= Budget THEN "error" ELSE warned]

\* getClaudeStatus of the pull build: the status from the two utilizations
\* of the usage response
claudeUsageStatus(in) ==
    LET warned == IF in.u5h > 80 \/ in.u7d > 80 THEN "warning" ELSE "ok"
    IN  [status |-> IF in.u5h >= 100 \/ in.u7d >= 100 THEN "error" ELSE warned]

\* handleClaudePush: the status from the pushed rate-limit headers
claudePushStatus(in) ==
    LET warned == IF parseFloat(in.utilization5h) > 80 THEN "warning" ELSE "ok"
    IN  [status |-> IF in.status5h = "rejected" \/ in.status7d = "rejected"
                    THEN "error" ELSE warned]

MaxCost == 12
MaxOverrideLen == 3
MaxBudgetLen == 2

\* settings an administrator may type into the budget field
BudgetChars == {"0", "1", "5", "x"}
BudgetStrings ==
    UNION {[1..n -> BudgetChars] : n \in 0..MaxBudgetLen}

\* utilization headers: "", "x", "0", "0.5", "0.8", "0.81", "1", "1.2"
UtilizationStrings ==
    {<<>>, <<"x">>, <<"0">>, <<"0", ".", "5">>, <<"0", ".", "8">>,
     <<"0", ".", "8", "1">>, <<"1">>, <<"1", ".", "2">>}

\* override strings an administrator may type into CacheTTLSeconds: the
\* short ones, and numbers around the largest duration
OverrideChars == {"0", "1", "5", "s"}
OverrideStrings ==
    UNION {[1..n -> OverrideChars] : n \in 0..MaxOverrideLen}
    \cup {<<"9", "2", "2", "3", "3", "7", "2", "0", "3", "6">>,
          <<"9", "2", "2", "3", "3", "7", "2", "0", "3", "7">>,
          <<"1", "0", "0", "0", "0", "0", "0", "0", "0", "0", "0">>}

TTLInputs == [of : {"ttl"}, override : OverrideStrings]
AugmentInputs ==
    [of : {"augment"}, remaining : {0, 1, 2, 10, 11}, total : {0, 20, 100},
     included : {0, 10, 20, 100}, isLow : BOOLEAN]
OpenAIInputs ==
    [of : {"openai"}, cost : 0..MaxCost, budget : BudgetStrings]
ClaudeUsageInputs ==
    [of : {"claude"}, u5h : {0, 79, 80, 81, 100, 120}, u7d : {0, 80, 81, 100}]
ClaudePushInputs ==
    [of : {"claude-push"}, utilization5h : UtilizationStrings,
     utilization7d : UtilizationStrings,
     status5h : {"", "allowed", "rejected"}, status7d : {"allowed", "rejected"}]

\* the other variables play no part in a formula
Apart == <<variant, cfgs, configuration, cfgPc, cfgChanges, cache, now, proc,
           nreq, npush, last, store, pushed>>

\* the formula of a provider is applied to the inputs drawn
CalcAugment ==
    /\ calc.fn = "none" /\ calc.in.of = "augment"
    /\ calc' = [fn |-> "getAugmentStatus", in |-> calc.in,
                out |-> augmentCreditInfo(calc.in)]
    /\ UNCHANGED Apart

CalcOpenAI ==
    /\ calc.fn = "none" /\ calc.in.of = "openai"
    /\ calc' = [fn |-> "getOpenAIStatus", in |-> calc.in,
                out |-> openAIBudgetStatus(calc.in)]
    /\ UNCHANGED Apart

CalcClaudeUsage ==
    /\ calc.fn = "none" /\ calc.in.of = "claude"
    /\ calc' = [fn |-> "getClaudeStatus", in |-> calc.in,
                out |-> claudeUsageStatus(calc.in)]
    /\ UNCHANGED Apart

CalcTTL ==
    /\ calc.fn = "none" /\ calc.in.of = "ttl"
    /\ calc' = [fn |-> "getCacheTTL", in |-> calc.in,
                out |-> cacheTTLOf(calc.in.override)]
    /\ UNCHANGED Apart

CalcClaudePush ==
    /\ calc.fn = "none" /\ calc.in.of = "claude-push"
    /\ calc' = [fn |-> "handleClaudePush", in |-> calc.in,
                out |-> claudePushStatus(calc.in)]
    /\ UNCHANGED Apart

InitFn ==
    /\ variant = "pull"
    /\ cfgs = <<EmptyConfiguration>>
    /\ configuration = 1
    /\ cfgPc = "idle"
    /\ cfgChanges = 0
    /\ cache = EmptyCache
    /\ now = 0
    /\ proc = [r \in Procs |-> IdleProc]
    /\ nreq = 0
    /\ npush = 0
    /\ last = NoHistory
    /\ store = NothingSaved
    /\ pushed = NoPush
    /\ \E in \in AugmentInputs \cup OpenAIInputs \cup ClaudeUsageInputs
                  \cup ClaudePushInputs \cup TTLInputs :
          calc = [fn |-> "none", in |-> in]

NextFn ==
    \/ CalcAugment
    \/ CalcOpenAI
    \/ CalcClaudeUsage
    \/ CalcClaudePush
    \/ CalcTTL

\* the status formulas over bounded inputs
SpecFn == InitFn /\ [][NextFn]_vars

\* ------------------------------------------------------------------ claims
\* where a response holds the record of provider p
Positions(services, p) == {i \in 1..Len(services) : services[i].id = p}

Responding(r) == proc[r].pc = "done"

\* C1: every aggregation response (status, or refresh after its clear) is a
\* list of exactly four records whose ids are augment, zai, openai, claude
\* in that order.
C1_FourRecordsInOrder ==
    \A r \in Procs :
        Responding(r) =>
            /\ Len(proc[r].services) = 4
            /\ \A i \in 1..4 : proc[r].services[i].id = Providers[i]

\* a response of the pull or push build that lists four records although
\* one of its providers failed upstream
C1_FourRecordsDespiteFailure ==
    \E r \in Procs :
        /\ Responding(r)
        /\ variant # "admin"
        /\ Len(proc[r].services) = 4
        /\ \E i \in 1..4 : proc[r].src[i] = "fetch" /\ proc[r].services[i].status = "error"

\* provider p is resolved by polling an upstream (claude only in the pull
\* build)
PollsUpstream(p) == p # "claude" \/ variant = "pull"

\* goroutine r sends the upstream request of provider p in this step
IssuesFetch(r, p) ==
    /\ proc[r].pc = "resolve" /\ Providers[proc[r].idx] = p
    /\ proc'[r].pc = "http"
    /\ PollsUpstream(p)

\* a fetch of p that looked the cache up less than one TTL ago has
\* completed and stored its record, with no invalidation since
EarlierFetchStored(p) ==
    /\ last[p].some /\ last[p].stored
    /\ now - last[p].look < getCacheTTL

\* another goroutine that looked the cache up less than one TTL ago, with
\* no invalidation since, still waits for the upstream of p
EarlierFetchPending(r, p) ==
    \E q \in Procs \ {r} :
        /\ Fetching(q, p) /\ ~proc[q].cut
        /\ now - proc[q].look < getCacheTTL

\* C2 as stated: of two resolutions of a provider within one TTL window
\* with no invalidation in between, sequential or overlapping, only one
\* sends an upstream request.
C2_OneFetchPerWindow ==
    [][\A r \in Procs, p \in ProviderSet :
         IssuesFetch(r, p) => ~EarlierFetchStored(p) /\ ~EarlierFetchPending(r, p)]_vars

\* C2 amended: a resolution that starts after a fetch of the provider has
\* completed and stored its record, within one TTL of that fetch's lookup
\* and with no invalidation in between, sends no upstream request.
C2_NoFetchAfterStoredFetch ==
    [][\A r \in Procs, p \in ProviderSet :
         IssuesFetch(r, p) => ~EarlierFetchStored(p)]_vars

\* a later resolution, at a later instant of the window, was served the
\* record the earlier fetch stored
C2_ServedWithinWindow ==
    \E r \in Procs, p \in ProviderSet :
        /\ PollsUpstream(p) /\ EarlierFetchStored(p) /\ now > last[p].look
        /\ \E i \in Positions(proc[r].services, p) :
              proc[r].src[i] = "cache" /\ proc[r].services[i] = last[p].rec

\* C3 as stated: no record of a refresh response is served from a cache
\* entry, in every interleaving with other requests.
C3_RefreshNeverServesCache ==
    \A r \in Procs :
        proc[r].kind = "refresh" =>
            \A i \in 1..Len(proc[r].src) : proc[r].src[i] # "cache"

\* C3 amended: when no other request is in flight between the start of a
\* refresh and its response, no record of the refresh response is served
\* from a cache entry, and every enabled provider that has its credential
\* and polls an upstream is fetched during the refresh.
C3_SerialRefreshFetches ==
    \A r \in Procs :
        (proc[r].kind = "refresh" /\ Responding(r) /\ proc[r].alone) =>
            \A i \in 1..Len(proc[r].src) :
                /\ proc[r].src[i] # "cache"
                /\ (/\ proc[r].services[i].id \in ProviderSet
                    /\ PollsUpstream(proc[r].services[i].id)
                    /\ ConfigAt(proc[r].config).enabled[proc[r].services[i].id]
                    /\ proc[r].src[i] # "nocred")
                   => proc[r].src[i] = "fetch"

\* a refresh that follows an earlier request, with no other request in
\* flight meanwhile, answers with a fetched record
C3_RefreshAfterRequestFetched ==
    \E r \in Procs :
        /\ proc[r].kind = "refresh" /\ Responding(r) /\ proc[r].alone
        /\ nreq > 1
        /\ \E i \in 1..Len(proc[r].src) :
              proc[r].src[i] = "fetch" /\ proc[r].services[i].status = "ok"

\* goroutine r finishes, in this step, the resolution of provider p that
\* read the cache (a hit, or the end of a fetch)
Completes(r, p) ==
    /\ (proc[r].pc = "resolve" \/ Waiting(proc[r])) /\ Providers[proc[r].idx] = p
    /\ Len(proc'[r].services) > Len(proc[r].services)

\* ... and the record it returns
Returned(r) == proc'[r].services[Len(proc[r].services) + 1]
ReturnedFrom(r) == proc'[r].src[Len(proc[r].src) + 1]

\* the resolution r finishes looked the cache up less than one TTL after
\* the lookup of the latest completed fetch of p, with no invalidation in
\* between
WithinWindowOfLast(r, p) ==
    /\ last[p].some
    /\ IF Waiting(proc[r])
       THEN ~proc[r].cut /\ proc[r].look - last[p].look < getCacheTTL
       ELSE now - last[p].look < getCacheTTL

\* C4: status requests repeated within one TTL window, with no refresh,
\* push or configuration change between them, return for a provider the
\* record the earlier request returned, whatever the upstream answered then.
C4_RepeatedStatusIdentical ==
    [][\A r \in Procs, p \in ProviderSet :
         (Completes(r, p) /\ WithinWindowOfLast(r, p))
         => Returned(r) = last[p].rec]_vars

\* C5: a resolution whose upstream fetch fails stores the error record it
\* returns in the cache.
C5_FailedFetchIsCached ==
    [][\A r \in Procs, p \in ProviderSet :
         (Completes(r, p) /\ Waiting(proc[r]) /\ Returned(r).status = "error")
         => cache'[p] = CacheEntry(Returned(r), now)]_vars

\* goroutine r looks the cache up for provider p in this step
LooksUp(r, p) ==
    /\ proc[r].pc = "resolve" /\ Providers[proc[r].idx] = p
    /\ proc'[r].pc # "resolve" \/ proc'[r].idx # proc[r].idx

\* C6: a cache lookup finds nothing exactly when the key is absent or
\* now - fetchedAt >= TTL; an entry is served only while its age is below
\* the TTL.
C6_ServedOnlyBelowTTL ==
    [][\A r \in Procs, p \in ProviderSet :
         LooksUp(r, p)
         => ((Completes(r, p) /\ ReturnedFrom(r) = "cache")
             <=> (cache[p].present /\ now - cache[p].fetchedAt < getCacheTTL))]_vars

\* the provider needs a credential (the push build has none for claude)
RequiresCredential(p) == ~(p = "claude" /\ variant = "push")

MissingCredential(config, p) ==
    config.enabled[p] /\ RequiresCredential(p) /\ config.cred[p] = ""

\* C7: an enabled provider whose credential is empty gets a record with
\* status error and a message, built without upstream call and without the
\* cache, and its cache entry is left as it was.
C7_MissingCredentialIsError ==
    [][/\ \A r \in Procs, p \in ProviderSet :
            (Responding(r) /\ MissingCredential(ConfigAt(proc[r].config), p))
            => \E i \in Positions(proc[r].services, p) :
                  /\ proc[r].services[i].status = "error"
                  /\ proc[r].services[i].error # ""
                  /\ proc[r].src[i] = "nocred"
       /\ \A p \in ProviderSet :
            MissingCredential(getConfiguration, p)
            => (cache'[p] = cache[p] \/ cache' = EmptyCache)]_vars

\* C8: a provider whose enabled flag is false gets the record with
\* enabled=false, status disabled and the standard hint, built by the
\* aggregator itself whatever the cache holds for it.
C8_DisabledGetsHint ==
    \A r \in Procs, p \in ProviderSet :
        (Responding(r) /\ ~ConfigAt(proc[r].config).enabled[p])
        => \E i \in Positions(proc[r].services, p) :
              /\ proc[r].services[i] = DisabledHint(p)
              /\ proc[r].src[i] = "disabled"

\* C10: a fetch whose upstream call fails at transport level or answers
\* with a status other than 2xx returns a record with status error.
C10_UpstreamFailureIsError ==
    \A p \in ProviderSet :
        (last[p].some /\ last[p].failed) => last[p].rec.status = "error"

IsPrefix(s, t) == Len(s) <= Len(t) /\ SubSeq(t, 1, Len(s)) = s

\* the configuration reduced to the fields that concern provider p
OwnConfiguration(p, config) ==
    [EmptyConfiguration EXCEPT
        !.enabled[p] = config.enabled[p],
        !.cred[p] = config.cred[p],
        !.refresh = IF p = "claude" THEN config.refresh ELSE "",
        !.budget = IF p = "openai" THEN config.budget ELSE "",
        !.ttl = config.ttl]

\* the records provider p can get from its own flag, credential, cache
\* entry and upstream answer, at the present time
OwnRecords(p, config) ==
    LET own == OwnConfiguration(p, config)
    IN  IF ~own.enabled[p]
        THEN IF variant = "admin" THEN {} ELSE {DisabledHint(p)}
        ELSE IF ~ResolverEntry(p, own).fetch
        THEN {ResolverEntry(p, own).rec}
        ELSE {ResolverResult(p, own, a[1], a[2], a[3]).rec :
                 a \in AllAnswers(p, config)}

\* the configuration goroutine r works with after this step
ConfigAfter(r) ==
    IF proc'[r].config = 0 THEN EmptyConfiguration ELSE cfgs[proc'[r].config]

Rank(pr) ==
    CASE pr.pc = "http" -> 1 [] pr.pc = "token" -> 2 [] pr.pc = "retry" -> 3
      [] OTHER -> 4

\* C11: one resolution of claude in the pull build sends at most one request
\* to the token endpoint and at most two usage requests, the second only
\* after a 401/403 and a refresh that yielded a token; no step leads back to
\* an earlier call, and the resolution ends with a record of claude.
C11_OneRefreshOneRetry ==
    [][\A r \in Procs :
         (variant = "pull" /\ Fetching(r, "claude")) =>
            /\ Rank(proc'[r]) >= Rank(proc[r])
            /\ proc'[r].calls # proc[r].calls => Rank(proc'[r]) > Rank(proc[r])
            /\ proc'[r].calls.token <= 1
            /\ proc'[r].calls.usage <= 2
            /\ proc'[r].calls.usage > proc[r].calls.usage
               => /\ proc[r].pc = "token" /\ proc'[r].pc = "retry"
                  /\ AuthError(proc[r].held)
                  /\ proc[r].calls.token = 1
                  /\ cfgs'[proc[r].config].cred["claude"] = "k2"
            /\ Rank(proc'[r]) = 4
               => /\ Completes(r, "claude")
                  /\ Returned(r).id = "claude"]_vars

\* a response whose claude record was built after a 401/403, one token
\* request and one retried usage request
C11_RefreshedAndRetried ==
    \E r \in Procs :
        /\ Responding(r) /\ variant = "pull"
        /\ proc[r].calls = [usage |-> 2, token |-> 1]
        /\ \E i \in Positions(proc[r].services, "claude") :
              proc[r].src[i] = "fetch" /\ proc[r].services[i].status = "ok"

\* the token endpoint returns a new access token
YieldsToken(tok) == ~tok.err /\ tok.code = 200 /\ tok.body \in {"access", "both"}

\* the retried usage request succeeds
Succeeds(resp) == ~resp.err /\ resp.code = 200 /\ Parses(resp.body)

\* C12: after a 401/403, when the token endpoint returns a new access token
\* that token, and the new refresh token when one is returned, are in the
\* configuration store; when the retried usage request then succeeds the
\* resolution returns the record built from the retry's response and has
\* stored it in the cache, the tokens being persisted.
C12_RetrySucceedsTokensPersisted ==
    [][\A r \in Procs :
         /\ \A tok \in TokenResponses :
               (refreshClaudeTokenAnswer(r, tok) /\ YieldsToken(tok))
               => /\ store'.saved
                  /\ store'.config.cred["claude"] = "k2"
                  /\ tok.body = "both" => store'.config.refresh = "r2"
                  /\ proc'[r].pc = "retry"
         /\ \A retry \in HTTPResponses :
               (getClaudeStatusRetried(r, retry) /\ Succeeds(retry))
               => /\ Completes(r, "claude")
                  /\ Returned(r).error = ""
                  /\ Returned(r).data = [level |-> Level(retry.body),
                                         plan |-> Level(retry.body) # "zero"]
                  /\ Returned(r).cachedAt = now
                  /\ cache'["claude"] = CacheEntry(Returned(r), now)
                  /\ store.saved /\ store.config.cred["claude"] = "k2"]_vars

\* a response with a claude record built from the retried request, stored
\* in the cache, with both new tokens in the configuration store
C12_RetriedRecordCached ==
    \E r \in Procs :
        /\ Responding(r)
        /\ proc[r].calls = [usage |-> 2, token |-> 1]
        /\ \E i \in Positions(proc[r].services, "claude") :
              /\ proc[r].src[i] = "fetch" /\ proc[r].services[i].status = "warning"
              /\ cache["claude"] = CacheEntry(proc[r].services[i], now)
        /\ store.saved
        /\ store.config.cred["claude"] = "k2" /\ store.config.refresh = "r2"

\* C13: after a 401/403, when the refresh yields no token (no refresh token
\* configured, or the token endpoint fails, answers other than 200, answers
\* an unparsable body or an empty access_token), the resolution returns the
\* error record of the original 401/403, sends no second usage request, and
\* leaves the stored tokens and the cache as they were.
C13_RefreshFailsOriginalError ==
    [][\A r \in Procs :
         /\ \A resp \in {Unauthorized, Forbidden} :
               (/\ Complete(r, resp, TransportFailure, TransportFailure)
                /\ variant = "pull" /\ Providers[proc[r].idx] = "claude"
                /\ ConfigAt(proc[r].config).refresh = "")
               => /\ Completes(r, "claude")
                  /\ Returned(r) = ErrorStatus("claude", HTTPError(resp.code))
                  /\ proc'[r].calls = [usage |-> 1, token |-> 0]
                  /\ UNCHANGED <<cfgs, store, cache>>
         /\ \A tok \in TokenResponses :
               (refreshClaudeTokenAnswer(r, tok) /\ ~YieldsToken(tok))
               => /\ Completes(r, "claude")
                  /\ Returned(r) = ErrorStatus("claude", HTTPError(proc[r].held.code))
                  /\ AuthError(proc[r].held)
                  /\ proc'[r].calls = [usage |-> 1, token |-> 1]
                  /\ UNCHANGED <<cfgs, store, cache>>]_vars

\* a response whose claude record is the error record of a 403, after a
\* token request that yielded nothing
C13_OriginalErrorReturned ==
    \E r \in Procs :
        /\ Responding(r)
        /\ proc[r].calls = [usage |-> 1, token |-> 1]
        /\ \E i \in Positions(proc[r].services, "claude") :
              proc[r].services[i] = ErrorStatus("claude", "http_403")
        /\ ~store.saved /\ ~cache["claude"].present

\* C14: an installed Configuration is never written in place: the objects
\* handlers hold change only by OnConfigurationChange installing a new one.
C14_SnapshotNeverWritten ==
    [][\A i \in DOMAIN cfgs : cfgs'[i] = cfgs[i]]_vars

\* a status request returns, in this step, the record of claude while a
\* push without error field is the latest event for claude
AfterPush(r) ==
    /\ variant = "push" /\ proc[r].kind = "status"
    /\ Completes(r, "claude")
    /\ last["claude"].some /\ last["claude"].rec.error = ""

\* C15 as stated: with claude enabled, the status request that follows an
\* accepted push without error field (no refresh or configuration change in
\* between) returns the record built from the payload, from the cache.
C15_PushedRecordServed ==
    [][\A r \in Procs :
         AfterPush(r)
         => Returned(r) = last["claude"].rec /\ ReturnedFrom(r) = "cache"]_vars

\* C15 amended: ... when the status request comes less than 55 minutes plus
\* one TTL after the push.
C15_PushedRecordServedWithinHour ==
    [][\A r \in Procs :
         (AfterPush(r) /\ now - last["claude"].look < PushHeadroom + getCacheTTL)
         => /\ Returned(r) = last["claude"].rec
            /\ ReturnedFrom(r) = "cache"
            /\ Returned(r).cachedAt = last["claude"].look
            /\ Returned(r).status \in {"ok", "warning", "error"}]_vars

\* a status response that holds a pushed record older than one TTL
C15_PushedRecordBeyondTTL ==
    \E r \in Procs :
        /\ Responding(r) /\ variant = "push" /\ proc[r].kind = "status"
        /\ last["claude"].some /\ last["claude"].rec.status = "warning"
        /\ now - last["claude"].look > getCacheTTL
        /\ \E i \in Positions(proc[r].services, "claude") :
              proc[r].services[i] = last["claude"].rec /\ proc[r].src[i] = "cache"

\* C19: a request to an API route without the identity header is answered
\* 401 by ServeHTTP itself and changes nothing: cache, configuration, store
\* and the other requests stay as they were, the response holds no record,
\* and the goroutine ends without an upstream call.
C19_NoHeaderNoEffect ==
    [][\A r \in Procs :
         /\ (~InFlight(r) /\ proc'[r] # proc[r]) =>
             \A route \in Routes, host \in Hosts : \A payload \in RequestBodies(route) :
               ServeHTTPFrom(r, route, "", host, payload)
               => /\ proc'[r].pc = "done" /\ proc'[r].code = 401
                  /\ proc'[r].services = <<>>
                  /\ \A q \in Procs \ {r} : proc'[q] = proc[q]
                  /\ UNCHANGED <<cache, cfgs, configuration, store, last, npush>>
         /\ (proc[r].code = 401 /\ proc'[r] # proc[r]) => proc'[r] = IdleProc]_vars

\* a push without the identity header is answered 401 while the cache holds
\* an entry
C19_PushTurnedAway ==
    \E r \in Procs :
        /\ Responding(r) /\ proc[r].code = 401 /\ proc[r].kind = "claude-push"
        /\ variant = "push"
        /\ cache["zai"].present /\ ~cache["claude"].present

\* C20 as stated: every status request that carries the identity header is
\* handled by handleGetStatus and answered 200 with a list of records,
\* whatever the host answers.
C20_StatusAlways200 ==
    [][\A r \in Procs :
         /\ (~InFlight(r) /\ proc'[r] # proc[r]) =>
             \A userID \in UserIDs \ {""}, host \in Hosts, payload \in RequestBodies("status") :
               ServeHTTPFrom(r, "status", userID, host, payload)
               => proc'[r].pc = "getcfg" /\ proc'[r].code = 200
         /\ (Responding(r) /\ proc[r].kind = "status" /\ proc[r].code = 200)
            => Len(proc[r].services) >= 1]_vars

\* the access check lets the user in: the allow-lists are empty, name the
\* user, or name a team of the user (pull build); the user lookup succeeds
\* (the other builds)
AccessGranted(userID, host) ==
    IF variant = "pull"
    THEN \/ getConfiguration.users = {} /\ ~getConfiguration.teams
         \/ userID \in getConfiguration.users
         \/ getConfiguration.teams /\ host.member
    ELSE host.lookup

\* C20 amended: ... every status request that carries the identity header
\* and passes the access check ...
C20_AdmittedStatus200 ==
    [][\A r \in Procs :
         /\ (~InFlight(r) /\ proc'[r] # proc[r]) =>
             \A userID \in UserIDs \ {""}, host \in Hosts, payload \in RequestBodies("status") :
               (ServeHTTPFrom(r, "status", userID, host, payload)
                /\ AccessGranted(userID, host))
               => proc'[r].pc = "getcfg" /\ proc'[r].code = 200
         /\ (Responding(r) /\ proc[r].kind = "status" /\ proc[r].code = 200)
            => Len(proc[r].services) >= 1]_vars

\* a status response of the pull build under a team allow-list, answered
\* 200 with four records of which one is an error record
C20_AdmittedByTeam ==
    \E r \in Procs :
        /\ Responding(r) /\ proc[r].kind = "status" /\ proc[r].code = 200
        /\ getConfiguration.teams
        /\ Len(proc[r].services) = 4
        /\ \E i \in 1..4 : proc[r].services[i].status = "error"

\* the status the rate-limit rule gives: u5h and u7d are the utilizations
\* in percent, rejected says that a window's status string is "rejected"
RateLimitStatus(u5h, u7d, rejected) ==
    IF u5h >= 100 \/ u7d >= 100 \/ rejected THEN "error"
    ELSE IF u5h > 80 \/ u7d > 80 THEN "warning"
    ELSE "ok"

\* C16: the status of the rate-limit provider is error if the utilization
\* of either window is at least 100% or either window's status string is
\* "rejected", else warning if either utilization exceeds 80%, else ok;
\* for records built from the polled usage response and from a push.
C16_RateLimitThresholds ==
    /\ calc.fn = "getClaudeStatus"
       => calc.out.status = RateLimitStatus(calc.in.u5h, calc.in.u7d, FALSE)
    /\ calc.fn = "handleClaudePush"
       => calc.out.status =
            RateLimitStatus(parseFloat(calc.in.utilization5h),
                            parseFloat(calc.in.utilization7d),
                            "rejected" \in {calc.in.status5h, calc.in.status7d})

\* C17: with a budget B > 0 the status of the cost-tracking provider is
\* error when C >= B, warning when 0.8*B <= C < B and ok below; with no
\* budget (empty, zero or unparsable setting) it is ok for every C.
C17_BudgetThresholds ==
    calc.fn = "getOpenAIStatus"
    => LET B == calc.out.budget
           C == calc.in.cost
       IN  calc.out.status =
             IF B > 0 /\ C >= B THEN "error"
             ELSE IF B > 0 /\ 5 * C >= 4 * B THEN "warning"
             ELSE "ok"

\* C18: for the credit-based provider usageUsed = total - remaining, where
\* total is the included-per-cycle value when positive and
\* usage_units_total otherwise; the status is warning exactly when the
\* low-balance flag is set or included > 0 and remaining/included < 0.10.
C18_AugmentUsedAndWarning ==
    calc.fn = "getAugmentStatus"
    => LET in == calc.in
           total == IF in.included > 0 THEN in.included ELSE in.total
       IN  /\ calc.out.usageTotal = total
           /\ calc.out.usageUsed = total - in.remaining
           /\ calc.out.status \in {"ok", "warning"}
           /\ calc.out.status = "warning"
              <=> (in.isLow \/ (in.included > 0 /\ 10 * in.remaining < in.included))

\* a balance below a tenth of the included units, the flag not set
C18_LowRemainderWarns ==
    /\ calc.fn = "getAugmentStatus"
    /\ calc.in.remaining = 1 /\ calc.in.included = 20 /\ calc.in.total = 100
    /\ ~calc.in.isLow
    /\ calc.out.usageUsed = 19 /\ calc.out.status = "warning"

\* the keys of the cache map
Keys(c) == {k \in ProviderSet : c[k].present}

\* C21: in every step the cache keeps all its keys or becomes empty.  It
\* becomes empty only in the locked section of handleRefresh or of
\* OnConfigurationChange; any other change writes one key, at the end of a
\* fetch of that key or in a push; the passing of time and a lookup that
\* finds an expired entry change nothing.
C21_KeysKeptOrAllDropped ==
    [][/\ Keys(cache) \subseteq Keys(cache') \/ cache' = EmptyCache
       /\ (cache' = EmptyCache /\ cache # EmptyCache)
          => (cfgPc = "clear" /\ cfgPc' = "idle")
             \/ \E r \in Procs : proc[r].pc = "clear" /\ proc'[r].pc = "getcfg"
       /\ (cache' # cache /\ cache' # EmptyCache)
          => \E k \in ProviderSet :
                /\ cache'[k].present
                /\ \A j \in ProviderSet \ {k} : cache'[j] = cache[j]
                /\ (\E r \in Procs : Fetching(r, k)) \/ (k = "claude" /\ npush' > npush)
       /\ now' # now => cache' = cache
       /\ \A r \in Procs, p \in ProviderSet : LooksUp(r, p) => cache' = cache]_vars

\* a response built while the entry of a provider was expired: the lookup
\* missed, the fetch failed, and the expired entry is still in the map
C21_ExpiredEntryKept ==
    \E r \in Procs, p \in ProviderSet :
        /\ Responding(r)
        /\ cache[p].present /\ now - cache[p].fetchedAt > getCacheTTL
        /\ \E i \in Positions(proc[r].services, p) :
              proc[r].src[i] = "fetch" /\ proc[r].services[i].status = "error"

\* the lookup goroutine r makes for provider p in this step misses: the
\* entry is absent or expired
Misses(r, p) == LooksUp(r, p) /\ ~getCached(p).found

\* goroutine r ends a fetch of p in this step with a record built from the
\* upstream's answer, which the resolver stores
StoresFetched(r, p) ==
    /\ Fetching(r, p) /\ Completes(r, p)
    /\ Returned(r).error = ""

\* C22 as stated: whatever the other requests do, a request whose lookup
\* for a provider misses sends its own upstream request, and a fetch that
\* stores its record replaces whatever the entry held.
C22_EveryMissFetches ==
    [][\A r \in Procs, p \in ProviderSet :
         /\ Misses(r, p) => (proc'[r].pc = "http" /\ PollsUpstream(p))
         /\ StoresFetched(r, p) => cache'[p] = CacheEntry(Returned(r), now)]_vars

\* C22 amended: ... for a provider that polls an upstream ...
C22_EveryMissOfPolledFetches ==
    [][\A r \in Procs, p \in ProviderSet :
         /\ (Misses(r, p) /\ PollsUpstream(p))
            => /\ proc'[r].pc = "http"
               /\ proc'[r].look = now /\ ~proc'[r].cut
               /\ proc'[r].services = proc[r].services
         /\ StoresFetched(r, p) => cache'[p] = CacheEntry(Returned(r), now)]_vars

\* a goroutine still waits for the upstream of a provider whose entry
\* another goroutine, which had missed as well, has stored meanwhile
C22_BothFetchedOneStored ==
    \E r \in Procs, p \in ProviderSet :
        /\ PollsUpstream(p) /\ Fetching(r, p) /\ ~proc[r].cut
        /\ cache[p].present /\ cache[p].fetchedAt > proc[r].look
        /\ last[p].some /\ last[p].stored /\ last[p].look = proc[r].look

\* C23: a push whose payload has an error field stores under the claude
\* key a record with status error that carries the message, and answers
\* error_stored; a resolution of the enabled claude provider that follows
\* within the TTL, with no refresh or other push in between, returns that
\* record.
C23_PushedErrorStoredAndServed ==
    [][\A r \in Procs :
         /\ handleClaudePush(r, "error")
            => /\ cache'["claude"].present
               /\ cache'["claude"].fetchedAt = now
               /\ cache'["claude"].data.id = "claude"
               /\ cache'["claude"].data.status = "error"
               /\ cache'["claude"].data.error = "pushed_error"
               /\ \A k \in ProviderSet \ {"claude"} : cache'[k] = cache[k]
               /\ proc'[r].code = 200 /\ proc'[r].reply = "error_stored"
               /\ pushed'.rec = cache'["claude"].data
         /\ (/\ variant = "push" /\ Completes(r, "claude")
             /\ last["claude"].some /\ last["claude"].rec.error # ""
             /\ now - last["claude"].look < getCacheTTL)
            => /\ Returned(r) = last["claude"].rec
               /\ Returned(r).status = "error"
               /\ ReturnedFrom(r) = "cache"]_vars

\* a status response, later than the push, that holds the pushed error
\* record
C23_PushedErrorReturned ==
    \E r \in Procs :
        /\ Responding(r) /\ variant = "push" /\ proc[r].kind = "status"
        /\ pushed.some /\ now > pushed.at
        /\ \E i \in Positions(proc[r].services, "claude") :
              /\ proc[r].services[i] = pushed.rec
              /\ proc[r].services[i].status = "error"
              /\ proc[r].services[i].error = "pushed_error"
              /\ proc[r].src[i] = "cache"

\* C24: in the push build, while no push has stored a record, every
\* resolution of the enabled claude provider returns the warning placeholder
\* that asks for a push, sends no upstream request and leaves the cache as
\* it is.
C24_PlaceholderBeforeFirstPush ==
    [][\A r \in Procs :
         (variant = "push" /\ ~pushed.some)
         => /\ ~Fetching(r, "claude") /\ ~cache["claude"].present
            /\ LooksUp(r, "claude")
               => /\ Completes(r, "claude")
                  /\ Returned(r).id = "claude" /\ Returned(r).enabled
                  /\ Returned(r).status = "warning"
                  /\ Returned(r).error = "waiting_for_push"
                  /\ ReturnedFrom(r) = "placeholder"
                  /\ ~Waiting(proc'[r])
                  /\ cache' = cache]_vars

\* the second request in a row is answered with the placeholder, no push
\* having stored a record
C24_StillWaiting ==
    \E r \in Procs :
        /\ Responding(r) /\ variant = "push" /\ ~pushed.some /\ nreq = 2
        /\ \E i \in Positions(proc[r].services, "claude") :
              /\ proc[r].services[i].status = "warning"
              /\ proc[r].src[i] = "placeholder"

\* the digit characters of s, in order
DigitsOnly(s) == SelectSeq(s, LAMBDA c : DigitValue(c) >= 0)

\* C25: the TTL is 300 seconds when the override is empty, holds no digit
\* or its digits form zero; otherwise it is, in seconds, the decimal number
\* its digit characters form in order, the other characters skipped.
C25_TTLFromDigits ==
    calc.fn = "getCacheTTL"
    => /\ ~calc.out.wraps
       /\ calc.out.ttl =
            IF StripZeros(DigitsOnly(calc.in.override)) = <<>>
            THEN <<"3", "0", "0">>
            ELSE StripZeros(DigitsOnly(calc.in.override))

\* the resolvers whose error records are returned without setCache
ReturnsErrorsUnstored(p) == p \in {"augment", "openai"} \/ (p = "claude" /\ variant = "pull")

\* C26: a call of getAugmentStatus, getOpenAIStatus or the pull
\* getClaudeStatus that returns an error record leaves the cache as it was:
\* every step of such a call changes the cache only when it ends the call
\* with a record that is not an error.
C26_ErrorRecordLeavesCache ==
    [][\A r \in Procs :
         (/\ proc[r].pc = "resolve" \/ Waiting(proc[r])
          /\ ReturnsErrorsUnstored(Providers[proc[r].idx])
          /\ proc'[r] # proc[r]
          /\ ~(Completes(r, Providers[proc[r].idx]) /\ Returned(r).error = ""))
         => cache' = cache]_vars

\* an upstream call failed and the entry it would have replaced is still
\* in the cache, with the other keys
C26_FailedFetchKeptEntries ==
    \E r \in Procs : \E i \in DOMAIN proc[r].src :
        /\ ReturnsErrorsUnstored(proc[r].services[i].id)
        /\ proc[r].src[i] = "fetch" /\ proc[r].services[i].error # ""
        /\ \A p \in ProviderSet : cache[p] # NoEntry

\* C27: a run of OnConfigurationChange whose load fails leaves the installed
\* configuration and the cache as they are; a run whose load succeeds
\* installs the loaded snapshot and ends with the whole cache emptied, the
\* snapshot still installed.
C27_ConfigurationChange ==
    [][/\ (cfgChanges' # cfgChanges /\ cfgPc' = "idle")
          => /\ configuration' = configuration /\ cfgs' = cfgs
             /\ cache' = cache
       /\ (cfgChanges' # cfgChanges /\ cfgPc' = "clear")
          => /\ configuration' = Len(cfgs') /\ Len(cfgs') = Len(cfgs) + 1
             /\ getConfiguration' = cfgs'[Len(cfgs')]
       /\ cfgPc = "clear"
          => /\ configuration' = Len(cfgs) /\ Len(cfgs') = Len(cfgs)
             /\ cfgPc' = "idle" => cache' = EmptyCache]_vars

\* a pushed record was in the cache, no request was made, and a
\* configuration change has emptied the cache
C27_ChangeDroppedPushedRecord ==
    /\ variant = "push" /\ pushed.some /\ nreq = 0
    /\ configuration = 2 /\ cfgPc = "idle"
    /\ cache = EmptyCache

\* the seconds a pushed record is served: 55 minutes and one TTL without
\* an error field, one TTL with one
ServedFor(rec) ==
    IF rec.error = "" THEN PushHeadroom + DefaultTTL ELSE DefaultTTL

\* goroutine r resolves, in this step, the enabled claude provider of the
\* push build while the entry of the latest push is in the cache
ResolvesPushed(r) ==
    /\ variant = "push" /\ Completes(r, "claude")
    /\ ConfigAt(proc[r].config).enabled["claude"]
    /\ pushed.some /\ cache["claude"].present

\* C28: a pushed record without error is served by the resolutions up to 55
\* minutes plus one TTL after the push, a pushed error record up to one TTL
\* after it; later resolutions return the waiting placeholder.
C28_PushedRecordLifetime ==
    [][\A r \in Procs :
         ResolvesPushed(r)
         => IF now - pushed.at <= ServedFor(pushed.rec)
            THEN Returned(r) = pushed.rec /\ ReturnedFrom(r) = "cache"
            ELSE Returned(r) = WaitingPlaceholder
                 /\ ReturnedFrom(r) = "placeholder"]_vars

\* a status response carries the placeholder although the entry of a push
\* without error is in the cache: the entry is older than 55 minutes and a
\* TTL
C28_PushedRecordOutlived ==
    \E r \in Procs :
        /\ Responding(r) /\ variant = "push" /\ proc[r].kind = "status"
        /\ pushed.some /\ pushed.rec.error = ""
        /\ cache["claude"].present /\ cache["claude"].data = pushed.rec
        /\ now - pushed.at > PushHeadroom + DefaultTTL
        /\ \E i \in Positions(proc[r].services, "claude") :
              /\ proc[r].services[i] = WaitingPlaceholder
              /\ proc[r].src[i] = "placeholder"

\* in the push build, a refresh has emptied the cache since the latest push
\* stored its record
RefreshedSincePush ==
    variant = "push" /\ pushed.some /\ ~last["claude"].some

\* C29: the locked section of a refresh empties the cache for every
\* provider, the pushed record and the entries of disabled providers
\* included; in the push build, from the refresh until the next push, no
\* claude entry is in the cache and every resolution of the enabled claude
\* provider returns the waiting placeholder, with no upstream call.
C29_RefreshEmptiesAll ==
    [][\A r \in Procs :
         /\ (proc[r].pc = "clear" /\ proc'[r].pc # "clear")
            => \A k \in ProviderSet : ~cache'[k].present
         /\ RefreshedSincePush
            => /\ ~cache["claude"].present /\ ~Fetching(r, "claude")
               /\ (Completes(r, "claude")
                   /\ ConfigAt(proc[r].config).enabled["claude"])
                  => /\ Returned(r) = WaitingPlaceholder
                     /\ ReturnedFrom(r) = "placeholder"
                     /\ cache' = cache]_vars

\* a push stored a record less than a TTL ago, a refresh followed, and the
\* status request after the refresh is answered with the placeholder
C29_PlaceholderAfterRefresh ==
    \E r \in Procs :
        /\ Responding(r) /\ proc[r].kind = "status" /\ nreq = 2
        /\ RefreshedSincePush /\ pushed.rec.error = ""
        /\ now - pushed.at < DefaultTTL
        /\ \E i \in Positions(proc[r].services, "claude") :
              /\ proc[r].services[i] = WaitingPlaceholder
              /\ proc[r].src[i] = "placeholder"

\* what a resolution of claude under the installed configuration returns
ServedNow == getClaudeStatusEntry(getConfiguration)

\* C30: a push whose body does not decode is answered 400 and leaves the
\* cache as it is, and with it what the resolutions of claude serve: the
\* record of an earlier push, if one is stored, is still served.
C30_BadPushChangesNothing ==
    [][\A r \in Procs :
         handleClaudePush(r, "badjson")
         => /\ proc'[r].code = 400 /\ proc'[r].reply = ""
            /\ cache' = cache
            /\ ServedNow' = ServedNow]_vars

\* a push has just been answered 400 while the record of an earlier push is
\* in the cache, and a resolution serves that record
C30_StoredRecordSurvivesBadPush ==
    \E r \in Procs :
        /\ variant = "push" /\ Responding(r)
        /\ proc[r].kind = "claude-push" /\ proc[r].code = 400
        /\ pushed.some /\ cache["claude"].data = pushed.rec
        /\ getConfiguration.enabled["claude"]
        /\ ServedNow = Direct("cache", pushed.rec)

\* C31: a step that sets key k (its entry changes to a present one) leaves
\* the entries of the other keys as they are, and a getCached(k) right
\* after it returns the value set, found; a key without entry, as every key
\* is after a clear, is not found.
C31_SetThenGet ==
    [][\A k \in ProviderSet :
         /\ (cache'[k] # cache[k] /\ cache'[k].present)
            => /\ getCached(k)' = [found |-> TRUE, value |-> cache'[k].data]
               /\ \A j \in ProviderSet \ {k} : cache'[j] = cache[j]
         /\ ~cache'[k].present => ~getCached(k)'.found]_vars

\* C32: every cache entry is keyed by one of the four providers and holds
\* a ServiceStatus with the id of its key, the enabled flag set and a status
\* of ok, warning or error; no disabled record is cached.
C32_EntriesAreStatusesOfTheirKey ==
    /\ DOMAIN cache = {"augment", "zai", "openai", "claude"}
    /\ \A k \in DOMAIN cache :
          cache[k].present
          => /\ cache[k].data.id = k
             /\ cache[k].data.enabled
             /\ cache[k].data.status \in {"ok", "warning", "error"}

\* the cache holds a fetched record beside a pushed error record of claude,
\* which the configuration has disabled
C32_PushedForDisabledBesideFetched ==
    /\ variant = "push" /\ ~getConfiguration.enabled["claude"]
    /\ cache["claude"].present /\ cache["claude"].data.status = "error"
    /\ \E k \in ProviderSet \ {"claude"} :
          cache[k].present /\ cache[k].data.status = "ok"

\* goroutine r waits for the upstream of a provider whose credential it
\* took from a configuration that has been replaced since, by one with
\* another credential for that provider
HoldsPreviousCredential(r) ==
    /\ Waiting(proc[r])
    /\ proc[r].config # configuration
    /\ ConfigAt(proc[r].config).cred[Providers[proc[r].idx]]
         # getConfiguration.cred[Providers[proc[r].idx]]

\* C33: once OnConfigurationChange has returned, no record fetched with the
\* credentials of the previous configuration enters the cache: a resolution
\* that started before the change and gets its upstream answer after it
\* does not write its entry.
C33_NoWriteWithPreviousCredential ==
    [][\A r \in Procs :
         (cfgPc = "idle" /\ HoldsPreviousCredential(r))
         => cache'[Providers[proc[r].idx]] = cache[Providers[proc[r].idx]]]_vars

\* while goroutine r waits for an upstream, the lock sections the others
\* have reached can be entered: r holds neither lock
LockSectionsOpen(r) ==
    /\ \A q \in Procs \ {r} :
          /\ proc[q].pc = "clear" => ENABLED handleRefresh(q)
          /\ proc[q].pc = "getcfg" => ENABLED handleGetStatus(q)
          /\ proc[q].pc = "resolve" => ENABLED Resolve(q)
    /\ cfgPc = "clear" => ENABLED OnConfigurationChangeClear

Rotated(j) == cfgs[j].refresh = "r2"

C36_SupersededTokenNotResubmitted ==
    [][\A r \in Procs :
          (proc[r].pc = "http" /\ proc'[r].pc = "token"
             /\ \E j \in DOMAIN cfgs : j >= proc[r].config /\ Rotated(j))
          => proc'[r].sent # "r"]_vars

\* an aggregation that has read its configuration and has still to read
\* credentials from it: the token of a provider it has yet to resolve, or
\* the refresh token it submits if its usage request is answered 401/403
ReadsCredentialsLater(r) ==
    /\ proc[r].kind = "status" /\ proc[r].config # 0
    /\ proc[r].pc \in {"resolve", "http"}

\* C37: the enabled providers and the credentials an aggregation works
\* with are those of the configuration it read at its start: no step of
\* another request or of the configuration hook, taken while the
\* aggregation runs, changes them.
C37_AggregationKeepsItsSnapshot ==
    [][\A r \in Procs :
          (ReadsCredentialsLater(r) /\ proc'[r] = proc[r])
          => /\ ConfigAt(proc[r].config)'.enabled = ConfigAt(proc[r].config).enabled
             /\ ConfigAt(proc[r].config)'.cred = ConfigAt(proc[r].config).cred
             /\ ConfigAt(proc[r].config)'.refresh = ConfigAt(proc[r].config).refresh]_vars

\* C38: for every override string the duration getCacheTTL returns is
\* strictly positive: its seconds are a number above zero, and the product
\* with time.Second has not wrapped round to a negative int64.
C38_TTLStrictlyPositive ==
    calc.fn = "getCacheTTL"
    => /\ StripZeros(calc.out.ttl) # <<>>
       /\ ~calc.out.negative

====
